---- MODULE Spec2Model ----
(***************************************************************************)
(* Tailwind e-bike controller: the shared telemetry store and its          *)
(* consumers (ble_telemetry.cpp, wifi_telemetry.cpp) and the torque sensor *)
(* calibration (torque_sensor.cpp).                                        *)
(*                                                                         *)
(* Telemetry values are abstracted to the tag of the producer transaction  *)
(* that wrote them (0 .. NumVals-1, cyclic); the store starts zeroed.      *)
(* The producers (control loop, motor-controller driver) live in main.cpp, *)
(* which is not part of the sources at hand; they are modelled from the    *)
(* specification, section 4.3: acquire with a bounded wait, write the      *)
(* field group, release.                                                   *)
(***************************************************************************)
EXTENDS Integers, Sequences, FiniteSets, TLC

\* ------------------------------------------------------------------ bounds
\* Number of distinct transaction tags a telemetry field can hold.
NumVals == 2

\* Largest configured sample count TORQUE_CALIBRATION_SAMPLES explored.
MaxSamples == 4

\* Largest number of calls of calibrate_torque_sensor explored.
MaxCalls == 2

\* Largest advance of millis() between two timeout checks of the calibration.
MaxTick == 3

Vals == 0 .. (NumVals - 1)

NextVal(v) == (v + 1) % NumVals

VARIABLES
  \* --- telemetry store
  dataUpdateSemaphore,   \* "free" or the task holding the mutex
  sharedVescData,        \* [speed_kmh, battery_percentage, rpm]
  sharedSensorData,      \* [filtered_torque, current_mode, human_power]
  human_power_watts,     \* control-loop global (extern in ble_telemetry.cpp)
  current_motor_rpm,     \* driver global (tailwind_controller.h)
  \* --- producers (modelled from the specification)
  ctrlPc, ctrlTxn,
  vescPc, vescTxn,
  \* --- BLE publisher task
  blePc,                 \* position inside bleTelemetryTask's loop
  bleTaken,              \* result of the last xSemaphoreTake of the cycle
  bleDeviceConnected,
  bleChar,               \* values of the BLE characteristics
  bleNotified,           \* has the current store operation sent a notify()
  bleGives,              \* history: xSemaphoreGive calls of the current call
  bleOldDeviceConnected,
  advertising,           \* the server is advertising
  linkStable,            \* history: no callback ran since the iteration began
  pCharNull,             \* the characteristic pointers that are NULL
  nullDeref,             \* history: the places that dereferenced a NULL
  \* --- BLE control service
  current_mode,          \* the active assist mode (extern int current_mode)
  AVAILABLE_PROFILES,    \* names of the active profiles, index 0 first
  bleWrite,              \* history: the latest write of a BLE client
  modeRequests,          \* history: changeAssistMode calls of that write
  \* --- WiFi /status handler
  wifiPc,
  response,              \* the JSON response being built
  \* --- torque sensor calibration (torque_sensor.cpp)
  debug_mode,
  TORQUE_CALIBRATION_SAMPLES,   \* the configured sample count N
  calPc,                 \* position inside calibrate_torque_sensor
  cal_i,                 \* loop counter i
  total_readings,
  valid_samples,
  elapsed,               \* millis() - start_time at the last timeout check
  torque_standstill_calibrated,
  torque_calibration_complete,
  calLog,                \* outcome printed on Serial
  accepted,              \* history: the readings that passed the sanity check
  last_reading,          \* history: the latest analogRead result, -1 before any
  delay_calls,           \* history: number of delay() calls made
  \* --- torque evaluation (torque_sensor.cpp)
  TORQUE_MAX_BACKWARD,   \* configured physical extents of the sensor
  TORQUE_MAX_FORWARD,
  debug_simulate_torque,
  debug_torque_nm,       \* target torque of the debug simulation
  raw_torque_value,
  crank_torque_nm,
  filtered_torque,
  torque_evaluated,      \* history: update_torque has run at least once
  \* --- ebike_setup (initialization.cpp)
  setupPc,               \* position inside ebike_setup
  calibrate_calls,       \* history: number of calls of calibrate_torque_sensor
  \* --- startup_battery_indicator (initialization.cpp)
  BATTERY_FULL_VOLTAGE,      \* configured thresholds, in tenths of a volt
  BATTERY_CRITICAL_VOLTAGE,
  indPc,                 \* position inside startup_battery_indicator
  led,                   \* level of BATTERY_LED_PIN
  ledLog,                \* history: on-time in ms of every finished LED pulse
  millis,                \* the clock read by millis(), ms since the run began
  vesc_timeout,
  battery_data_available,
  battery_voltage,       \* in tenths of a volt
  battery_percentage,
  blink_i,               \* loop counter i of the blink loops
  \* --- wifiTelemetryTask (wifi_telemetry.cpp)
  wifiTaskPc,            \* position inside wifiTelemetryTask
  wifiConnected,
  serverBegun,           \* webServer.begin() has been called
  routes,                \* handlers registered with webServer
  lastAPCheck,
  handleClientCalls,     \* history: number of webServer.handleClient() calls
  \* --- VESC bridge (vesc_bridge.cpp)
  usbRx, vescRx,         \* bytes waiting in the receive buffer of each port
  usbRcvd, vescRcvd,     \* history: every byte received on each port
  usbTx, vescTx,         \* history: every byte written to each port
  bytes_forwarded_usb_to_vesc,
  bytes_forwarded_vesc_to_usb,
  usb_bytes, vesc_bytes, \* what the two forward calls of runVescBridge returned
  led_state,
  stats_printed          \* history: number of statistics reports printed

ctrlVars == <<ctrlPc, ctrlTxn, human_power_watts>>
vescVars == <<vescPc, vescTxn, current_motor_rpm>>
bleVars  == <<blePc, bleTaken, bleChar, bleNotified, bleGives>>
wifiVars == <<wifiPc, response>>
ctlVars  == <<current_mode, AVAILABLE_PROFILES, bleWrite, modeRequests>>

\* Connection handling, characteristic pointers and the control service.
linkVars == <<bleOldDeviceConnected, advertising, linkStable, pCharNull,
              nullDeref, ctlVars>>

bridgeVars == <<usbRx, vescRx, usbRcvd, vescRcvd, usbTx, vescTx,
                bytes_forwarded_usb_to_vesc, bytes_forwarded_vesc_to_usb,
                usb_bytes, vesc_bytes, led_state, stats_printed>>

\* The start-up LED sequence and the WiFi task outside its /status handler.
startVars == <<BATTERY_FULL_VOLTAGE, BATTERY_CRITICAL_VOLTAGE, indPc, led,
               ledLog, millis, vesc_timeout, battery_data_available,
               battery_voltage, battery_percentage, blink_i, wifiTaskPc,
               wifiConnected, serverBegun, routes, lastAPCheck,
               handleClientCalls>>

storeVars == <<dataUpdateSemaphore, sharedVescData, sharedSensorData,
               ctrlVars, vescVars, bleVars, bleDeviceConnected, wifiVars,
               linkVars, bridgeVars, startVars>>

calVars == <<debug_mode, TORQUE_CALIBRATION_SAMPLES, calPc, cal_i,
             total_readings, valid_samples, elapsed,
             torque_standstill_calibrated, torque_calibration_complete, calLog,
             accepted, last_reading, delay_calls>>

torqueVars == <<TORQUE_MAX_BACKWARD, TORQUE_MAX_FORWARD, debug_simulate_torque,
                debug_torque_nm, raw_torque_value, crank_torque_nm,
                filtered_torque, torque_evaluated>>

setupVars == <<setupPc, calibrate_calls>>

\* What calibrate_torque_sensor never touches, the telemetry store aside.
sessionVars == <<torqueVars, setupVars>>

\* What the producers, the publishing steps of the BLE task and the WiFi
\* handler never touch.
otherVars == <<calVars, sessionVars, linkVars, bridgeVars, startVars>>

\* What no step of the BLE task and no BLE callback touches, the mutex aside.
bleEnv == <<sharedVescData, sharedSensorData, ctrlVars, vescVars, wifiVars,
            calVars, sessionVars, bridgeVars, startVars>>

vars == <<storeVars, calVars, sessionVars>>

\* ------------------------------------------------------------- the mutex
\* xSemaphoreTake(dataUpdateSemaphore, pdMS_TO_TICKS(10)) returning pdTRUE
SemTakeOk(t) ==
  /\ dataUpdateSemaphore = "free"
  /\ dataUpdateSemaphore' = t

\* xSemaphoreTake returning pdFALSE: the mutex stayed with another task for
\* the whole bounded wait; the mutex itself is left as it is.
SemTakeTimeout(t) ==
  /\ dataUpdateSemaphore # "free"
  /\ UNCHANGED dataUpdateSemaphore

\* xSemaphoreGive(dataUpdateSemaphore)
SemGive(t) ==
  /\ dataUpdateSemaphore' = "free"

\* ------------------------------------------------------------------ Init
\* The telemetry tasks with bleTelemetryTask at position pc: "create" is its
\* entry (nothing created, not advertising), "link" the top of its loop.
\* wifiTelemetryTask is at its entry ("start") or in its loop with the web
\* server begun ("loop"); startup_battery_indicator is not being executed.
InitTelemetry(pc, tables, batteries, wifi) ==
  /\ dataUpdateSemaphore = "free"
  /\ sharedVescData = [speed_kmh |-> 0, battery_percentage |-> 0, rpm |-> 0]
  /\ sharedSensorData = [filtered_torque |-> 0, current_mode |-> 0,
                         human_power |-> 0]
  /\ human_power_watts = 0
  /\ current_motor_rpm = 0
  /\ ctrlPc = "compute" /\ ctrlTxn = 0
  /\ vescPc = "poll" /\ vescTxn = 0
  /\ blePc = pc
  /\ bleTaken = FALSE
  /\ bleDeviceConnected = FALSE
  /\ AVAILABLE_PROFILES \in tables
  /\ bleChar = [speed |-> 0, torque |-> 0, battery |-> 0, status |-> 0,
                power |-> 0, vesc_rpm |-> 0,
                mode_list |-> IF pc = "create" THEN <<>>
                                               ELSE AVAILABLE_PROFILES]
  /\ bleNotified = FALSE
  /\ bleGives = 0
  /\ bleOldDeviceConnected = FALSE
  /\ advertising = (pc # "create")
  /\ linkStable = TRUE
  /\ pCharNull = {}
  /\ nullDeref = {}
  /\ current_mode = 0
  /\ bleWrite = [seq |-> 0, char |-> "none", value |-> <<>>]
  /\ modeRequests = <<>>
  /\ wifiPc = "idle"
  /\ response = [speed |-> "none", battery |-> "none", mode |-> "none",
                 torque |-> "none"]
  /\ usbRx = <<>> /\ vescRx = <<>>
  /\ usbRcvd = <<>> /\ vescRcvd = <<>>
  /\ usbTx = <<>> /\ vescTx = <<>>
  /\ bytes_forwarded_usb_to_vesc = 0
  /\ bytes_forwarded_vesc_to_usb = 0
  /\ usb_bytes = 0 /\ vesc_bytes = 0
  /\ led_state = FALSE
  /\ stats_printed = 0
  /\ \E b \in batteries : /\ BATTERY_FULL_VOLTAGE = b[1]
                          /\ BATTERY_CRITICAL_VOLTAGE = b[2]
  /\ indPc = "idle"
  /\ led = "LOW"
  /\ ledLog = <<>>
  /\ millis = 0
  /\ vesc_timeout = 0
  /\ battery_data_available = FALSE
  /\ battery_voltage = 0
  /\ battery_percentage = [num |-> 0, den |-> 1]
  /\ blink_i = 0
  /\ wifiTaskPc = wifi
  /\ wifiConnected = (wifi = "loop")
  /\ serverBegun = (wifi = "loop")
  /\ routes = (IF wifi = "loop" THEN {"/", "/status", "notFound"} ELSE {})
  /\ lastAPCheck = 0
  /\ handleClientCalls = 0

\* bleTelemetryTask has every characteristic and runs its loop.
InitStore == InitTelemetry("link", {<<"No Assist", "Eco", "Sport">>},
                           {<<420, 330>>}, "loop")

\* ------------------------------------------- producers (specification 4.3)
\* Control loop: computes the power estimate into its global, then publishes
\* the sensor group as one transaction (publish_sensor).
CtrlCompute ==
  /\ ctrlPc = "compute"
  /\ ctrlTxn' = NextVal(ctrlTxn)
  /\ human_power_watts' = NextVal(ctrlTxn)
  /\ ctrlPc' = "take"
  /\ UNCHANGED <<dataUpdateSemaphore, sharedVescData, sharedSensorData,
                 vescVars, bleVars, bleDeviceConnected, wifiVars, otherVars>>

CtrlTake ==
  /\ ctrlPc = "take"
  /\ \/ SemTakeOk("ctrl") /\ ctrlPc' = "w1"
     \/ SemTakeTimeout("ctrl") /\ ctrlPc' = "compute"
  /\ UNCHANGED <<sharedVescData, sharedSensorData, ctrlTxn, human_power_watts,
                 vescVars, bleVars, bleDeviceConnected, wifiVars, otherVars>>

CtrlWrite1 ==
  /\ ctrlPc = "w1"
  /\ sharedSensorData' = [sharedSensorData EXCEPT !.filtered_torque = ctrlTxn]
  /\ ctrlPc' = "w2"
  /\ UNCHANGED <<dataUpdateSemaphore, sharedVescData, ctrlTxn,
                 human_power_watts, vescVars, bleVars, bleDeviceConnected,
                 wifiVars, otherVars>>

CtrlWrite2 ==
  /\ ctrlPc = "w2"
  /\ sharedSensorData' = [sharedSensorData EXCEPT !.current_mode = ctrlTxn,
                                                  !.human_power = ctrlTxn]
  /\ ctrlPc' = "give"
  /\ UNCHANGED <<dataUpdateSemaphore, sharedVescData, ctrlTxn,
                 human_power_watts, vescVars, bleVars, bleDeviceConnected,
                 wifiVars, otherVars>>

CtrlGive ==
  /\ ctrlPc = "give"
  /\ SemGive("ctrl")
  /\ ctrlPc' = "compute"
  /\ UNCHANGED <<sharedVescData, sharedSensorData, ctrlTxn, human_power_watts,
                 vescVars, bleVars, bleDeviceConnected, wifiVars, otherVars>>

\* Motor-controller driver: decodes a reading into its global, then
\* publishes the controller group as one transaction (publish_controller).
VescPoll ==
  /\ vescPc = "poll"
  /\ vescTxn' = NextVal(vescTxn)
  /\ current_motor_rpm' = NextVal(vescTxn)
  /\ vescPc' = "take"
  /\ UNCHANGED <<dataUpdateSemaphore, sharedVescData, sharedSensorData,
                 ctrlVars, bleVars, bleDeviceConnected, wifiVars, otherVars>>

VescTake ==
  /\ vescPc = "take"
  /\ \/ SemTakeOk("vesc") /\ vescPc' = "w1"
     \/ SemTakeTimeout("vesc") /\ vescPc' = "poll"
  /\ UNCHANGED <<sharedVescData, sharedSensorData, vescTxn, current_motor_rpm,
                 ctrlVars, bleVars, bleDeviceConnected, wifiVars, otherVars>>

VescWrite1 ==
  /\ vescPc = "w1"
  /\ sharedVescData' = [sharedVescData EXCEPT !.speed_kmh = vescTxn]
  /\ vescPc' = "w2"
  /\ UNCHANGED <<dataUpdateSemaphore, sharedSensorData, vescTxn,
                 current_motor_rpm, ctrlVars, bleVars, bleDeviceConnected,
                 wifiVars, otherVars>>

VescWrite2 ==
  /\ vescPc = "w2"
  /\ sharedVescData' = [sharedVescData EXCEPT !.battery_percentage = vescTxn,
                                              !.rpm = vescTxn]
  /\ vescPc' = "give"
  /\ UNCHANGED <<dataUpdateSemaphore, sharedSensorData, vescTxn,
                 current_motor_rpm, ctrlVars, bleVars, bleDeviceConnected,
                 wifiVars, otherVars>>

VescGive ==
  /\ vescPc = "give"
  /\ SemGive("vesc")
  /\ vescPc' = "poll"
  /\ UNCHANGED <<sharedVescData, sharedSensorData, vescTxn, current_motor_rpm,
                 ctrlVars, bleVars, bleDeviceConnected, wifiVars, otherVars>>

\* ------------------------------------------------- BLE (ble_telemetry.cpp)
\* EBikeServerCallbacks::onConnect. A central connects to an advertising
\* server, and the stack stops advertising once it is connected.
OnConnect ==
  /\ blePc # "crashed"
  /\ advertising
  /\ ~bleDeviceConnected
  /\ bleDeviceConnected' = TRUE
  /\ advertising' = FALSE
  /\ linkStable' = FALSE
  /\ UNCHANGED <<dataUpdateSemaphore, bleVars, bleOldDeviceConnected,
                 pCharNull, nullDeref, ctlVars, bleEnv>>

\* Variant: the callback leaves the restart of advertising to the task loop.
OnDisconnect_NoRestart ==
  /\ blePc # "crashed"
  /\ bleDeviceConnected
  /\ bleDeviceConnected' = FALSE
  /\ linkStable' = FALSE
  /\ UNCHANGED <<dataUpdateSemaphore, bleVars, bleOldDeviceConnected,
                 advertising, pCharNull, nullDeref, ctlVars, bleEnv>>

\* EBikeServerCallbacks::onDisconnect: clears the flag, waits and calls
\* pServer->startAdvertising().
OnDisconnect ==
  /\ blePc # "crashed"
  /\ bleDeviceConnected
  /\ bleDeviceConnected' = FALSE
  /\ advertising' = TRUE
  /\ linkStable' = FALSE
  /\ UNCHANGED <<dataUpdateSemaphore, bleVars, bleOldDeviceConnected,
                 pCharNull, nullDeref, ctlVars, bleEnv>>

\* The characteristics tested by the check of lines 161-169.
TelemetryChars == {"speed", "torque", "battery", "status", "power", "vesc_rpm"}

\* pChar->... at the place site, then on to next. Through a NULL pointer the
\* behaviour is undefined: the access traps and the task stops, or execution
\* goes on with nothing stored.
Deref(site, nullChars, next) ==
  IF nullChars = {}
    THEN blePc' = next /\ UNCHANGED nullDeref
    ELSE /\ nullDeref' = nullDeref \cup {site}
         /\ blePc' \in {"crashed", next}

\* bleTelemetryTask, lines 370-540: every characteristic is created and used
\* at once (addDescriptor, setCallbacks); a pointer that came back NULL is
\* reported on Serial and nothing else.
BleCreate ==
  /\ blePc = "create"
  /\ \E nulls \in {{}, {"speed"}, {"vesc_rpm"}, {"mode_list"}} :
       /\ pCharNull' = nulls
       /\ Deref("create", nulls, "initial")
  /\ UNCHANGED <<dataUpdateSemaphore, bleTaken, bleChar, bleNotified, bleGives,
                 bleDeviceConnected, bleOldDeviceConnected, advertising,
                 linkStable, ctlVars, bleEnv>>

\* Lines 543-551: the initial values, set through every telemetry pointer.
BleInitialValues ==
  /\ blePc = "initial"
  /\ Deref("initial", TelemetryChars \cap pCharNull, "modelist")
  /\ bleChar' = [c \in DOMAIN bleChar |->
                   IF c \in TelemetryChars \ pCharNull THEN 0 ELSE bleChar[c]]
  /\ UNCHANGED <<dataUpdateSemaphore, bleTaken, bleNotified, bleGives,
                 bleDeviceConnected, bleOldDeviceConnected, advertising,
                 linkStable, pCharNull, ctlVars, bleEnv>>

\* sendBLEModeList (lines 327-362): the list of the active profiles is set
\* through pCharModeList, with no test of the pointer.
sendBLEModeList(next) ==
  /\ Deref("modelist", {"mode_list"} \cap pCharNull, next)
  /\ bleChar' = IF "mode_list" \in pCharNull
                  THEN bleChar
                  ELSE [bleChar EXCEPT !.mode_list = AVAILABLE_PROFILES]

\* Lines 553-572: sendBLEModeList(), then BLEDevice::startAdvertising().
BleInitModeList ==
  /\ blePc = "modelist"
  /\ sendBLEModeList("link")
  /\ advertising' = (blePc' = "link")
  /\ UNCHANGED <<dataUpdateSemaphore, bleTaken, bleNotified, bleGives,
                 bleDeviceConnected, bleOldDeviceConnected, linkStable,
                 pCharNull, ctlVars, bleEnv>>

\* Lines 589-603 of the loop: both tests of the connection flags when the
\* first one fails, otherwise on to the delay(500) of the first branch.
BleLinkPoll ==
  /\ blePc = "link"
  /\ IF ~bleDeviceConnected /\ bleOldDeviceConnected
       THEN blePc' = "L_restart" /\ UNCHANGED bleOldDeviceConnected
       ELSE /\ blePc' = "T_take"
            /\ bleOldDeviceConnected' =
                 IF bleDeviceConnected /\ ~bleOldDeviceConnected
                   THEN bleDeviceConnected ELSE bleOldDeviceConnected
  /\ UNCHANGED <<dataUpdateSemaphore, bleTaken, bleChar, bleNotified, bleGives,
                 bleDeviceConnected, advertising, linkStable, pCharNull,
                 nullDeref, ctlVars, bleEnv>>

\* Lines 593-603 after the delay: startAdvertising(), the flag is copied as
\* it is now, and the second test then finds the two flags equal.
BleLinkRestart ==
  /\ blePc = "L_restart"
  /\ advertising' = TRUE
  /\ bleOldDeviceConnected' = bleDeviceConnected
  /\ blePc' = "T_take"
  /\ UNCHANGED <<dataUpdateSemaphore, bleTaken, bleChar, bleNotified, bleGives,
                 bleDeviceConnected, linkStable, pCharNull, nullDeref, ctlVars,
                 bleEnv>>

\* pChar->setValue(v); if (bleDeviceConnected) pChar->notify();
SetAndNotify(field, v) ==
  /\ bleChar' = [bleChar EXCEPT ![field] = v]
  /\ bleNotified' = (bleNotified \/ bleDeviceConnected)

bleRest == <<sharedVescData, sharedSensorData, ctrlVars, vescVars,
             bleDeviceConnected, wifiVars, otherVars>>

\* Mutant: the result of xSemaphoreTake is ignored and the body runs anyway.
BleTelemTake_IgnoresResult ==
  /\ blePc = "T_take"
  /\ \/ SemTakeOk("ble") /\ bleTaken' = TRUE
     \/ SemTakeTimeout("ble") /\ bleTaken' = FALSE
  /\ blePc' = "T_check"
  /\ bleNotified' = FALSE
  /\ bleGives' = 0
  /\ UNCHANGED <<bleChar, bleRest>>

\* updateBLETelemetryData: if (xSemaphoreTake(...) == pdTRUE) { ... }
BleTelemTake ==
  /\ blePc = "T_take"
  /\ \/ SemTakeOk("ble") /\ bleTaken' = TRUE /\ blePc' = "T_check"
     \/ SemTakeTimeout("ble") /\ bleTaken' = FALSE /\ blePc' = "V_take"
  /\ bleNotified' = FALSE
  /\ bleGives' = 0
  /\ UNCHANGED <<bleChar, bleRest>>

\* Variant: the early return keeps the mutex.
BleTelemNullCheck_NoRelease ==
  /\ blePc = "T_check"
  /\ blePc' = IF TelemetryChars \cap pCharNull # {} THEN "V_take" ELSE "T_speed"
  /\ UNCHANGED <<dataUpdateSemaphore, bleTaken, bleChar, bleNotified, bleGives,
                 bleRest>>

\* Lines 161-169: with a telemetry pointer NULL, xSemaphoreGive and return.
BleTelemNullCheck ==
  /\ blePc = "T_check"
  /\ IF TelemetryChars \cap pCharNull # {}
       THEN SemGive("ble") /\ bleGives' = bleGives + 1 /\ blePc' = "V_take"
       ELSE UNCHANGED <<dataUpdateSemaphore, bleGives>> /\ blePc' = "T_speed"
  /\ UNCHANGED <<bleTaken, bleChar, bleNotified, bleRest>>

BleTelemSpeed ==
  /\ blePc = "T_speed"
  /\ SetAndNotify("speed", sharedVescData.speed_kmh)
  /\ blePc' = "T_torque"
  /\ UNCHANGED <<dataUpdateSemaphore, bleTaken, bleGives, bleRest>>

BleTelemTorque ==
  /\ blePc = "T_torque"
  /\ SetAndNotify("torque", sharedSensorData.filtered_torque)
  /\ blePc' = "T_battery"
  /\ UNCHANGED <<dataUpdateSemaphore, bleTaken, bleGives, bleRest>>

BleTelemBattery ==
  /\ blePc = "T_battery"
  /\ SetAndNotify("battery", sharedVescData.battery_percentage)
  /\ blePc' = "T_status"
  /\ UNCHANGED <<dataUpdateSemaphore, bleTaken, bleGives, bleRest>>

BleTelemStatus ==
  /\ blePc = "T_status"
  /\ SetAndNotify("status", sharedSensorData.current_mode)
  /\ blePc' = "T_power"
  /\ UNCHANGED <<dataUpdateSemaphore, bleTaken, bleGives, bleRest>>

\* powerDoc["human_power"] = human_power_watts;  (the extern global)
BleTelemPower ==
  /\ blePc = "T_power"
  /\ SetAndNotify("power", human_power_watts)
  /\ blePc' = "T_give"
  /\ UNCHANGED <<dataUpdateSemaphore, bleTaken, bleGives, bleRest>>

\* Mutant: the function returns without xSemaphoreGive.
BleTelemGive_NoRelease ==
  /\ blePc = "T_give"
  /\ blePc' = "V_take"
  /\ UNCHANGED <<dataUpdateSemaphore, bleTaken, bleChar, bleNotified, bleGives,
                 bleRest>>

\* xSemaphoreGive at the end of updateBLETelemetryData
BleTelemGive ==
  /\ blePc = "T_give"
  /\ SemGive("ble")
  /\ bleGives' = bleGives + 1
  /\ blePc' = "V_take"
  /\ UNCHANGED <<bleTaken, bleChar, bleNotified, bleRest>>

\* updateBLEVescData
BleVescTake ==
  /\ blePc = "V_take"
  /\ \/ SemTakeOk("ble") /\ bleTaken' = TRUE /\ blePc' = "V_data"
     \/ SemTakeTimeout("ble") /\ bleTaken' = FALSE /\ blePc' = "delay"
  /\ bleNotified' = FALSE
  /\ bleGives' = 0
  /\ UNCHANGED <<bleChar, bleRest>>

\* vescDoc["motor_rpm"] = current_motor_rpm;  (the driver's global), set
\* through pCharVescData with no test of the pointer (line 318).
BleVescData ==
  /\ blePc = "V_data"
  /\ Deref("vesc", {"vesc_rpm"} \cap pCharNull, "V_give")
  /\ IF "vesc_rpm" \in pCharNull
       THEN UNCHANGED <<bleChar, bleNotified>>
       ELSE SetAndNotify("vesc_rpm", current_motor_rpm)
  /\ UNCHANGED <<dataUpdateSemaphore, bleTaken, bleGives, bleDeviceConnected,
                 bleOldDeviceConnected, advertising, linkStable, pCharNull,
                 ctlVars, bleEnv>>

BleVescGive ==
  /\ blePc = "V_give"
  /\ SemGive("ble")
  /\ bleGives' = bleGives + 1
  /\ blePc' = "delay"
  /\ UNCHANGED <<bleTaken, bleChar, bleNotified, bleRest>>

\* vTaskDelayUntil(...), then the next iteration of while (1)
BleDelay ==
  /\ blePc = "delay"
  /\ blePc' = "link"
  /\ linkStable' = TRUE
  /\ UNCHANGED <<dataUpdateSemaphore, bleTaken, bleNotified, bleChar, bleGives,
                 bleDeviceConnected, bleOldDeviceConnected, advertising,
                 pCharNull, nullDeref, ctlVars, bleEnv>>

\* --------------------------------------- BLE control service (lines 83-145)
\* The calls of changeAssistMode one callback makes, in order: the profile
\* requested last is the active one afterwards.
changeAssistMode(calls) ==
  /\ modeRequests' = calls
  /\ current_mode' = IF calls = <<>> THEN current_mode ELSE calls[Len(calls)]

NUM_ACTIVE_PROFILES == Len(AVAILABLE_PROFILES)

\* Payloads a client writes to the mode-control characteristic (bytes).
ModePayloads == {<<>>, <<0>>, <<1>>, <<2>>, <<3>>, <<255>>, <<1, 255>>,
                 <<255, 0>>}

\* Variant: the first byte is passed on without the range test.
BleModeWrite_NoRangeCheck ==
  /\ blePc # "crashed"
  /\ bleDeviceConnected
  /\ \E value \in ModePayloads :
       /\ bleWrite' = [seq |-> 1 - bleWrite.seq, char |-> "mode",
                       value |-> value]
       /\ changeAssistMode(IF Len(value) > 0 THEN <<value[1]>> ELSE <<>>)
  /\ UNCHANGED <<dataUpdateSemaphore, bleVars, bleDeviceConnected,
                 bleOldDeviceConnected, advertising, linkStable, pCharNull,
                 nullDeref, AVAILABLE_PROFILES, bleEnv>>

\* EBikeModeControlCallbacks::onWrite (lines 83-103)
BleModeWrite ==
  /\ blePc # "crashed"
  /\ bleDeviceConnected
  /\ \E value \in ModePayloads :
       /\ bleWrite' = [seq |-> 1 - bleWrite.seq, char |-> "mode",
                       value |-> value]
       /\ changeAssistMode(IF Len(value) > 0 /\ value[1] < NUM_ACTIVE_PROFILES
                             THEN <<value[1]>> ELSE <<>>)
  /\ UNCHANGED <<dataUpdateSemaphore, bleVars, bleDeviceConnected,
                 bleOldDeviceConnected, advertising, linkStable, pCharNull,
                 nullDeref, AVAILABLE_PROFILES, bleEnv>>

\* String command = String(value.c_str()): the text up to the first zero byte.
RECURSIVE CommandString(_)
CommandString(value) ==
  IF value = <<>> \/ Head(value) = "NUL"
    THEN <<>>
    ELSE <<Head(value)>> \o CommandString(Tail(value))

\* Variant: the loop of lines 130-138 without its break.
RECURSIVE EmergencyStopCalls_NoBreak(_)
EmergencyStopCalls_NoBreak(i) ==
  IF i >= NUM_ACTIVE_PROFILES
    THEN <<>>
    ELSE (IF AVAILABLE_PROFILES[i + 1] = "No Assist" THEN <<i>> ELSE <<>>)
           \o EmergencyStopCalls_NoBreak(i + 1)

\* Lines 130-138: the changeAssistMode calls of the loop from index i on.
RECURSIVE EmergencyStopCalls(_)
EmergencyStopCalls(i) ==
  IF i >= NUM_ACTIVE_PROFILES
    THEN <<>>
    ELSE IF AVAILABLE_PROFILES[i + 1] = "No Assist"
           THEN <<i>>
           ELSE EmergencyStopCalls(i + 1)

\* EBikeCommandCallbacks::onWrite (lines 105-145). GET_STATUS runs
\* updateBLETelemetryData in the callback's task: the five values are set
\* under the mutex, or nothing is when the take times out or a telemetry
\* pointer is NULL. Payloads are sequences of pieces of text, "NUL" being a
\* zero byte.
BleCommandWrite ==
  /\ blePc # "crashed"
  /\ bleDeviceConnected
  /\ \E value \in {<<>>, <<"GET_STATUS">>, <<"GET_MODES">>,
                    <<"EMERGENCY_STOP">>, <<"RESET">>,
                    <<"EMERGENCY_STOP", "!">>,
                    <<"EMERGENCY_STOP", "NUL", "!">>,
                    <<"NUL", "EMERGENCY_STOP">>} :
       LET command == CommandString(value)
       IN /\ bleWrite' = [seq |-> 1 - bleWrite.seq, char |-> "command",
                          value |-> value]
          /\ CASE command = <<"GET_STATUS">> ->
                    /\ bleChar' =
                         IF dataUpdateSemaphore = "free"
                              /\ TelemetryChars \cap pCharNull = {}
                           THEN [bleChar EXCEPT
                                   !.speed = sharedVescData.speed_kmh,
                                   !.torque = sharedSensorData.filtered_torque,
                                   !.battery = sharedVescData.battery_percentage,
                                   !.status = sharedSensorData.current_mode,
                                   !.power = human_power_watts]
                           ELSE bleChar
                    /\ changeAssistMode(<<>>)
                    /\ UNCHANGED <<blePc, nullDeref>>
               [] command = <<"GET_MODES">> ->
                    /\ sendBLEModeList(blePc)
                    /\ changeAssistMode(<<>>)
               [] command = <<"EMERGENCY_STOP">> ->
                    /\ changeAssistMode(EmergencyStopCalls(0))
                    /\ UNCHANGED <<blePc, bleChar, nullDeref>>
               [] OTHER ->
                    /\ changeAssistMode(<<>>)
                    /\ UNCHANGED <<blePc, bleChar, nullDeref>>
  /\ UNCHANGED <<dataUpdateSemaphore, bleTaken, bleNotified, bleGives,
                 bleDeviceConnected, bleOldDeviceConnected, advertising,
                 linkStable, pCharNull, AVAILABLE_PROFILES, bleEnv>>

\* ------------------------------------------------ WiFi (wifi_telemetry.cpp)
wifiRest == <<dataUpdateSemaphore, sharedVescData, sharedSensorData, ctrlVars,
              vescVars, bleVars, bleDeviceConnected, otherVars>>

EmptyResponse == [speed |-> "none", battery |-> "none", mode |-> "none",
                  torque |-> "none"]

\* webServer.handleClient() dispatching GET /status to handleStatusAPI
WifiRequest ==
  /\ wifiPc = "idle"
  /\ wifiPc' = "W_speed"
  /\ response' = EmptyResponse
  /\ UNCHANGED wifiRest

WifiReadSpeed ==
  /\ wifiPc = "W_speed"
  /\ response' = [response EXCEPT !.speed = sharedVescData.speed_kmh]
  /\ wifiPc' = "W_battery"
  /\ UNCHANGED wifiRest

WifiReadBattery ==
  /\ wifiPc = "W_battery"
  /\ response' = [response EXCEPT !.battery = sharedVescData.battery_percentage]
  /\ wifiPc' = "W_mode"
  /\ UNCHANGED wifiRest

WifiReadMode ==
  /\ wifiPc = "W_mode"
  /\ response' = [response EXCEPT !.mode = sharedSensorData.current_mode]
  /\ wifiPc' = "W_torque"
  /\ UNCHANGED wifiRest

WifiReadTorque ==
  /\ wifiPc = "W_torque"
  /\ response' = [response EXCEPT !.torque = sharedSensorData.filtered_torque]
  /\ wifiPc' = "W_send"
  /\ UNCHANGED wifiRest

\* webServer.send(200, "application/json", response)
WifiSend ==
  /\ wifiPc = "W_send"
  /\ wifiPc' = "idle"
  /\ response' = EmptyResponse
  /\ UNCHANGED wifiRest

\* ------------------------------------- wifiTelemetryTask, outside requests
\* wifi_telemetry.h line 24
TELEMETRY_UPDATE_RATE_MS == 2000

\* The clock value up to which the loop of wifiTelemetryTask is followed.
MaxMillis == 60000

\* Lines 116-149: the start-up delays (2000 + 100 + 100 + 500 ms), then
\* WiFi.softAP(...) succeeds or fails and wifiConnected is set to its result.
WifiTaskStart ==
  /\ wifiTaskPc = "start"
  /\ \E apStarted \in BOOLEAN : wifiConnected' = apStarted
  /\ millis' = millis + 2700
  /\ wifiTaskPc' = "server"
  /\ UNCHANGED <<serverBegun, routes, lastAPCheck, handleClientCalls,
                 BATTERY_FULL_VOLTAGE, BATTERY_CRITICAL_VOLTAGE, indPc, led,
                 ledLog, vesc_timeout, battery_data_available, battery_voltage,
                 battery_percentage, blink_i, dataUpdateSemaphore,
                 sharedVescData, sharedSensorData, ctrlVars, vescVars, bleVars,
                 bleDeviceConnected, wifiVars, linkVars, bridgeVars, calVars,
                 sessionVars>>

\* Lines 152-171: the three handlers are registered and webServer.begin() is
\* called only if wifiConnected; then the loop is entered.
WifiServerSetup ==
  /\ wifiTaskPc = "server"
  /\ IF wifiConnected
       THEN /\ routes' = {"/", "/status", "notFound"}
            /\ serverBegun' = TRUE
       ELSE UNCHANGED <<routes, serverBegun>>
  /\ wifiTaskPc' = "loop"
  /\ UNCHANGED <<wifiConnected, millis, lastAPCheck, handleClientCalls,
                 BATTERY_FULL_VOLTAGE, BATTERY_CRITICAL_VOLTAGE, indPc, led,
                 ledLog, vesc_timeout, battery_data_available, battery_voltage,
                 battery_percentage, blink_i, dataUpdateSemaphore,
                 sharedVescData, sharedSensorData, ctrlVars, vescVars, bleVars,
                 bleDeviceConnected, wifiVars, linkVars, bridgeVars, calVars,
                 sessionVars>>

\* Lines 172-195, one iteration of the loop: handleClient() if wifiConnected;
\* otherwise, once more than 10 s have passed since lastAPCheck, the access
\* point is set up again (two delays of 200 ms), wifiConnected is set if
\* softAP succeeds, and lastAPCheck takes the clock. vTaskDelayUntil then
\* sleeps to the next multiple of the update period.
WifiTaskLoop ==
  /\ wifiTaskPc = "loop"
  /\ millis < MaxMillis
  /\ IF wifiConnected
       THEN /\ handleClientCalls' = handleClientCalls + 1
            /\ UNCHANGED <<wifiConnected, lastAPCheck>>
       ELSE IF millis - lastAPCheck > 10000
              THEN /\ \E softAP \in BOOLEAN :
                        wifiConnected' = softAP
                   /\ lastAPCheck' = millis + 400
                   /\ UNCHANGED handleClientCalls
              ELSE UNCHANGED <<wifiConnected, lastAPCheck, handleClientCalls>>
  /\ millis' = millis + TELEMETRY_UPDATE_RATE_MS
  /\ UNCHANGED <<wifiTaskPc, serverBegun, routes,
                 BATTERY_FULL_VOLTAGE, BATTERY_CRITICAL_VOLTAGE, indPc, led,
                 ledLog, vesc_timeout, battery_data_available, battery_voltage,
                 battery_percentage, blink_i, dataUpdateSemaphore,
                 sharedVescData, sharedSensorData, ctrlVars, vescVars, bleVars,
                 bleDeviceConnected, wifiVars, linkVars, bridgeVars, calVars,
                 sessionVars>>

\* ------------------------------------- calibration (torque_sensor.cpp)
\* Plausible-reading range of the sanity check, torque_sensor.cpp line 39.
MIN_VALID_READING == 100

MAX_VALID_READING == 3995

\* Macros of ebike_controller.h, which is not among the sources at hand: the
\* default baseline (inside the plausible range, as the drift printout
\* "calibrated - default" presumes) and the overall timeout, at model scale.
TORQUE_STANDSTILL_DEFAULT == 2048

TORQUE_CALIBRATION_TIMEOUT_MS == 2

\* Values analogRead(TORQUE_SENSOR_PIN) is sampled at: the 12-bit extremes,
\* both edges of the plausible range, and the default itself.
AdcReadings == {0, 99, 100, 101, 2048, 3995, 3996, 4095}

\* What an integer division by zero can produce: a trap (the ESP32 panics
\* with IntegerDivideByZero) or an arbitrary quotient.
DivZeroOutcomes == {"trap", "garbage"}

DivZeroQuotients == {-1, 0}

\* Compile-time configuration: debug_mode and the sample count.
CalConfig(samples, debug) ==
  /\ TORQUE_CALIBRATION_SAMPLES \in samples
  /\ debug_mode \in debug

\* State before calibrate_torque_sensor is called.
CalNotStarted ==
  /\ calPc = "idle"
  /\ cal_i = 0
  /\ total_readings = 0
  /\ valid_samples = 0
  /\ elapsed = 0
  /\ torque_standstill_calibrated = TORQUE_STANDSTILL_DEFAULT
  /\ torque_calibration_complete = FALSE
  /\ calLog = "none"
  /\ accepted = <<>>
  /\ last_reading = -1
  /\ delay_calls = 0

\* The shipped configurations: several samples are taken.
InitCal == CalConfig(2 .. MaxSamples, BOOLEAN) /\ CalNotStarted

\* Every configuration with at least one sample.
InitCalAnyN == CalConfig(1 .. MaxSamples, BOOLEAN) /\ CalNotStarted

\* Calibration held still (for the specifications of the telemetry tasks).
InitCalIdle == CalConfig({2}, {FALSE}) /\ CalNotStarted

\* Variant: the function without its debug bypass.
CalEnter_NoBypass ==
  /\ calPc = "idle"
  /\ total_readings' = 0
  /\ valid_samples' = 0
  /\ cal_i' = 0
  /\ elapsed' = 0
  /\ calPc' = "loop"
  /\ delay_calls' = delay_calls + 1
  /\ accepted' = <<>>
  /\ UNCHANGED <<torque_standstill_calibrated, torque_calibration_complete,
                 calLog, debug_mode, TORQUE_CALIBRATION_SAMPLES, last_reading,
                 storeVars, sessionVars>>

\* calibrate_torque_sensor, lines 7-26: the debug bypass, or the start of
\* the sampling loop.
CalEnter ==
  /\ calPc = "idle"
  /\ IF debug_mode
       THEN /\ torque_standstill_calibrated' = TORQUE_STANDSTILL_DEFAULT
            /\ torque_calibration_complete' = TRUE
            /\ calLog' = "skipped"
            /\ calPc' = "done"
            /\ UNCHANGED <<cal_i, total_readings, valid_samples, elapsed,
                           delay_calls>>
       ELSE /\ total_readings' = 0
            /\ valid_samples' = 0
            /\ cal_i' = 0
            /\ elapsed' = 0
            /\ calPc' = "loop"
            /\ delay_calls' = delay_calls + 1
            /\ UNCHANGED <<torque_standstill_calibrated,
                           torque_calibration_complete, calLog>>
  /\ accepted' = <<>>
  /\ UNCHANGED <<debug_mode, TORQUE_CALIBRATION_SAMPLES, last_reading,
                 storeVars, sessionVars>>

\* Variant: the loop head without its timeout check.
CalLoopCheck_NoTimeout ==
  /\ calPc = "loop"
  /\ IF cal_i < TORQUE_CALIBRATION_SAMPLES
       THEN \E dt \in 0 .. MaxTick :
              /\ elapsed' = IF elapsed + dt > TORQUE_CALIBRATION_TIMEOUT_MS
                              THEN TORQUE_CALIBRATION_TIMEOUT_MS + 1
                              ELSE elapsed + dt
              /\ calPc' = "sample"
       ELSE /\ calPc' = "decide"
            /\ UNCHANGED elapsed
  /\ UNCHANGED <<debug_mode, TORQUE_CALIBRATION_SAMPLES, cal_i, total_readings,
                 valid_samples, torque_standstill_calibrated,
                 torque_calibration_complete, calLog, accepted, last_reading,
                 delay_calls, storeVars, sessionVars>>

\* for (i < TORQUE_CALIBRATION_SAMPLES) { if (millis() - start_time >
\* TORQUE_CALIBRATION_TIMEOUT_MS) break; ... }   (lines 28-33)
\* Everything beyond the timeout compares alike, so elapsed saturates there.
CalLoopCheck ==
  /\ calPc = "loop"
  /\ IF cal_i < TORQUE_CALIBRATION_SAMPLES
       THEN \E dt \in 0 .. MaxTick :
              LET now == IF elapsed + dt > TORQUE_CALIBRATION_TIMEOUT_MS
                           THEN TORQUE_CALIBRATION_TIMEOUT_MS + 1
                           ELSE elapsed + dt
              IN /\ elapsed' = now
                 /\ calPc' = IF now > TORQUE_CALIBRATION_TIMEOUT_MS
                               THEN "decide" ELSE "sample"
       ELSE /\ calPc' = "decide"
            /\ UNCHANGED elapsed
  /\ UNCHANGED <<debug_mode, TORQUE_CALIBRATION_SAMPLES, cal_i, total_readings,
                 valid_samples, torque_standstill_calibrated,
                 torque_calibration_complete, calLog, accepted, last_reading,
                 delay_calls, storeVars, sessionVars>>

\* Variant: the bounds of the sanity check are exclusive.
ReadingValid_Exclusive(reading) ==
  reading > MIN_VALID_READING /\ reading < MAX_VALID_READING

\* The sanity check of line 39.
ReadingValid(reading) ==
  reading >= MIN_VALID_READING /\ reading <= MAX_VALID_READING

\* Variant: a rejected reading is taken again at once (neither the delay nor
\* the i++ is reached).
CalSample_RetryInvalid ==
  /\ calPc = "sample"
  /\ \E reading \in AdcReadings :
       /\ last_reading' = reading
       /\ IF ReadingValid(reading)
            THEN /\ total_readings' = total_readings + reading
                 /\ valid_samples' = valid_samples + 1
                 /\ accepted' = Append(accepted, reading)
                 /\ cal_i' = cal_i + 1
                 /\ delay_calls' = delay_calls + 1
            ELSE UNCHANGED <<total_readings, valid_samples, accepted, cal_i,
                             delay_calls>>
  /\ calPc' = "loop"
  /\ UNCHANGED <<debug_mode, TORQUE_CALIBRATION_SAMPLES, elapsed,
                 torque_standstill_calibrated, torque_calibration_complete,
                 calLog, storeVars, sessionVars>>

\* Lines 35-48: read, accept or reject, delay, i++.
CalSample ==
  /\ calPc = "sample"
  /\ \E reading \in AdcReadings :
       /\ last_reading' = reading
       /\ IF ReadingValid(reading)
            THEN /\ total_readings' = total_readings + reading
                 /\ valid_samples' = valid_samples + 1
                 /\ accepted' = Append(accepted, reading)
            ELSE UNCHANGED <<total_readings, valid_samples, accepted>>
  /\ delay_calls' = delay_calls + 1
  /\ cal_i' = cal_i + 1
  /\ calPc' = "loop"
  /\ UNCHANGED <<debug_mode, TORQUE_CALIBRATION_SAMPLES, elapsed,
                 torque_standstill_calibrated, torque_calibration_complete,
                 calLog, storeVars, sessionVars>>

\* Variant: one accepted reading is enough.
EnoughSamples_AnyValid == valid_samples >= 1

\* if (valid_samples >= (TORQUE_CALIBRATION_SAMPLES / 2))   (line 52)
EnoughSamples == valid_samples >= (TORQUE_CALIBRATION_SAMPLES \div 2)

\* The mean of sum over n, rounded to the nearest integer (halves upwards).
RoundedMean(sum, n) == (2 * sum + n) \div (2 * n)

\* Variant: the calibrated value is rounded to nearest.
CalibratedValue_Rounded == RoundedMean(total_readings, valid_samples)

\* (int)(total_readings / valid_samples)   (line 53); the operands are never
\* negative, so C's truncating division is \div.
CalibratedValue == total_readings \div valid_samples

\* Lines 51-69: the calibrated value or the fallback.
CalDecide ==
  /\ calPc = "decide"
  /\ IF EnoughSamples
       THEN IF valid_samples = 0
              THEN \E outcome \in DivZeroOutcomes :
                     IF outcome = "trap"
                       THEN /\ calPc' = "crashed"
                            /\ UNCHANGED <<torque_standstill_calibrated,
                                           torque_calibration_complete, calLog>>
                       ELSE /\ torque_standstill_calibrated' \in DivZeroQuotients
                            /\ torque_calibration_complete' = TRUE
                            /\ calLog' = "completed"
                            /\ calPc' = "done"
              ELSE /\ torque_standstill_calibrated' = CalibratedValue
                   /\ torque_calibration_complete' = TRUE
                   /\ calLog' = "completed"
                   /\ calPc' = "done"
       ELSE /\ torque_standstill_calibrated' = TORQUE_STANDSTILL_DEFAULT
            /\ torque_calibration_complete' = TRUE
            /\ calLog' = "failed"
            /\ calPc' = "done"
  /\ UNCHANGED <<debug_mode, TORQUE_CALIBRATION_SAMPLES, cal_i, total_readings,
                 valid_samples, elapsed, accepted, last_reading, delay_calls,
                 storeVars, sessionVars>>

\* bool is_torque_calibration_complete()   (lines 72-74)
is_torque_calibration_complete == torque_calibration_complete

\* ------------------------------------ torque evaluation (update_torque)
\* Macros of ebike_controller.h, at model scale: the dead-zone threshold in
\* ADC counts and the full-scale torque in Nm.
TORQUE_THRESHOLD == 10

TORQUE_MAX_NM == 100

\* Largest value of the 12-bit ADC (comment of update_torque).
ADC_MAX == 4095

\* float values: exact fractions num/den with den > 0, and the two IEEE 754
\* results of a division by zero, +infinity (1/0) and NaN (0/0). The scaled
\* torque is a quotient of two integers below 2^12 times TORQUE_MAX_NM, so
\* single precision keeps distinct fractions distinct and 1.0 * TORQUE_MAX_NM
\* exact.
Float(n, d) == [num |-> n, den |-> d]

FloatZero == Float(0, 1)

FloatInf == Float(1, 0)

FloatNaN == Float(0, 0)

FloatMaxNm == Float(TORQUE_MAX_NM, 1)

IsNaN(x) == x.den = 0 /\ x.num = 0

IsInf(x) == x.den = 0 /\ x.num > 0

\* x > y and x < y as IEEE 754 compares: false whenever an operand is NaN.
FloatGreater(x, y) ==
  IF IsNaN(x) \/ IsNaN(y) THEN FALSE
  ELSE IF IsInf(x) THEN ~IsInf(y)
  ELSE IF IsInf(y) THEN FALSE
  ELSE x.num * y.den > y.num * x.den

FloatLess(x, y) == FloatGreater(y, x)

\* x == y on floats.
FloatEqual(x, y) ==
  IF IsNaN(x) \/ IsNaN(y) THEN FALSE
  ELSE IF IsInf(x) \/ IsInf(y) THEN IsInf(x) /\ IsInf(y)
  ELSE x.num * y.den = y.num * x.den

\* abs() and max() on int.
Abs(x) == IF x < 0 THEN -x ELSE x

Max(a, b) == IF a > b THEN a ELSE b

\* The sensor's extents the build may be configured with (TORQUE_MAX_BACKWARD,
\* TORQUE_MAX_FORWARD of ebike_controller.h): the whole ADC range, or extents
\* inside it.
LimitConfigs == {<<0, 4095>>, <<500, 3500>>}

\* A configuration with no room between the extents, at the default baseline.
DegenerateLimits == {<<2048, 2048>>}

\* Target torques update_debug_simulation may set in debug_torque_nm.
DebugTorques == {Float(-1, 1), FloatZero, Float(1, 2), Float(33, 1),
                 Float(50, 1), FloatMaxNm, Float(TORQUE_MAX_NM + 1, 1)}

\* Deviations from the baseline at which analogRead is sampled: around zero,
\* on both sides of the threshold, and mid-scale.
Deviations == {-1024, -(TORQUE_THRESHOLD + 1), -TORQUE_THRESHOLD,
               -(TORQUE_THRESHOLD - 1), -1, 0, 1, TORQUE_THRESHOLD - 1,
               TORQUE_THRESHOLD, TORQUE_THRESHOLD + 1, 1024}

\* Values analogRead(TORQUE_SENSOR_PIN) is sampled at in update_torque: the
\* ADC extremes, the configured extents, and the deviations above.
RawSamples ==
  {r \in {0, ADC_MAX, TORQUE_MAX_BACKWARD, TORQUE_MAX_FORWARD}
         \cup {torque_standstill_calibrated + d : d \in Deviations} :
     r \in 0 .. ADC_MAX}

\* Compile-time configuration of the evaluator.
TorqueConfig(limits, sim) ==
  /\ \E lim \in limits :
       /\ TORQUE_MAX_BACKWARD = lim[1]
       /\ TORQUE_MAX_FORWARD = lim[2]
  /\ debug_simulate_torque \in sim

\* The evaluator's globals before the first cycle.
TorqueNotRun ==
  /\ debug_torque_nm = FloatZero
  /\ raw_torque_value = 0
  /\ crank_torque_nm = FloatZero
  /\ filtered_torque = FloatZero
  /\ torque_evaluated = FALSE

\* Variant: the deviation keeps its sign.
AbsoluteDeviation_Signed(raw) == raw - torque_standstill_calibrated

\* abs(raw_torque_value - torque_standstill_calibrated)   (lines 109-112)
AbsoluteDeviation(raw) == Abs(raw - torque_standstill_calibrated)

\* Variant: the smaller of the two extents.
max_deviation_Min ==
  -Max(TORQUE_MAX_BACKWARD - torque_standstill_calibrated,
       torque_standstill_calibrated - TORQUE_MAX_FORWARD)

\* max(torque_standstill_calibrated - TORQUE_MAX_BACKWARD,
\*     TORQUE_MAX_FORWARD - torque_standstill_calibrated)   (lines 121-122)
max_deviation ==
  Max(torque_standstill_calibrated - TORQUE_MAX_BACKWARD,
      TORQUE_MAX_FORWARD - torque_standstill_calibrated)

\* Variant: the quotient is taken in integer arithmetic.
ScaledTorque_IntegerDivision(absolute_deviation) ==
  Float((absolute_deviation \div max_deviation) * TORQUE_MAX_NM, 1)

\* (float)absolute_deviation / max_deviation * TORQUE_MAX_NM   (line 125)
ScaledTorque(absolute_deviation) ==
  IF max_deviation = 0
    THEN IF absolute_deviation = 0 THEN FloatNaN ELSE FloatInf
  ELSE IF max_deviation < 0
    THEN Float(-(absolute_deviation * TORQUE_MAX_NM), -max_deviation)
  ELSE Float(absolute_deviation * TORQUE_MAX_NM, max_deviation)

\* Variant: the threshold itself belongs to the dead-zone.
InDeadZone_Inclusive(absolute_deviation) ==
  absolute_deviation <= TORQUE_THRESHOLD

\* if (absolute_deviation < TORQUE_THRESHOLD)   (line 115)
InDeadZone(absolute_deviation) == absolute_deviation < TORQUE_THRESHOLD

\* Variant: the scaling without a dead-zone.
UnclampedTorque_NoDeadZone(raw) == ScaledTorque(AbsoluteDeviation(raw))

\* Lines 115-126: zero inside the dead-zone, the scaled deviation outside.
UnclampedTorque(raw) ==
  IF InDeadZone(AbsoluteDeviation(raw))
    THEN FloatZero
    ELSE ScaledTorque(AbsoluteDeviation(raw))

\* Lines 129-131: the two clamping ifs.
ClampTorque(x) ==
  LET upper == IF FloatGreater(x, FloatMaxNm) THEN FloatMaxNm ELSE x
  IN IF FloatLess(upper, FloatZero) THEN FloatZero ELSE upper

\* Variant: the synthetic deviation is rounded up.
SimulatedRaw_RoundUp(t) ==
  IF FloatGreater(t, FloatZero)
    THEN torque_standstill_calibrated
           + ((t.num * max_deviation + t.den * TORQUE_MAX_NM - 1)
                \div (t.den * TORQUE_MAX_NM))
    ELSE torque_standstill_calibrated

\* Lines 90-98: the synthetic raw value of the simulation; (int) truncates.
SimulatedRaw(t) ==
  IF FloatGreater(t, FloatZero)
    THEN torque_standstill_calibrated
           + ((t.num * max_deviation) \div (t.den * TORQUE_MAX_NM))
    ELSE torque_standstill_calibrated

\* The control loop (main.cpp) runs its cycles once ebike_setup has returned.
ControlLoopRunning == setupPc = "ready"

\* Variant: filtered_torque lags one cycle behind crank_torque_nm.
update_torque_Lagged ==
  /\ ControlLoopRunning
  /\ IF debug_mode /\ debug_simulate_torque
       THEN \E t \in DebugTorques :
              /\ debug_torque_nm' = t
              /\ crank_torque_nm' = t
              /\ raw_torque_value' = SimulatedRaw(t)
       ELSE \E raw \in RawSamples :
              /\ raw_torque_value' = raw
              /\ crank_torque_nm' = ClampTorque(UnclampedTorque(raw))
              /\ UNCHANGED debug_torque_nm
  /\ filtered_torque' = crank_torque_nm
  /\ torque_evaluated' = TRUE
  /\ UNCHANGED <<TORQUE_MAX_BACKWARD, TORQUE_MAX_FORWARD, debug_simulate_torque,
                 setupVars, calVars, storeVars>>

\* update_torque (lines 80-135), called by the control loop: the simulation
\* path with the target update_debug_simulation has set, or the sensor path.
update_torque ==
  /\ ControlLoopRunning
  /\ IF debug_mode /\ debug_simulate_torque
       THEN \E t \in DebugTorques :
              /\ debug_torque_nm' = t
              /\ crank_torque_nm' = t
              /\ filtered_torque' = t
              /\ raw_torque_value' = SimulatedRaw(t)
       ELSE \E raw \in RawSamples :
              /\ raw_torque_value' = raw
              /\ crank_torque_nm' = ClampTorque(UnclampedTorque(raw))
              /\ filtered_torque' = crank_torque_nm'
              /\ UNCHANGED debug_torque_nm
  /\ torque_evaluated' = TRUE
  /\ UNCHANGED <<TORQUE_MAX_BACKWARD, TORQUE_MAX_FORWARD, debug_simulate_torque,
                 setupVars, calVars, storeVars>>

\* --------------------------------------- ebike_setup (initialization.cpp)
\* calibrate_torque_sensor has not been called yet.
CalNotCalled ==
  /\ calPc = "uncalled"
  /\ cal_i = 0
  /\ total_readings = 0
  /\ valid_samples = 0
  /\ elapsed = 0
  /\ torque_standstill_calibrated = TORQUE_STANDSTILL_DEFAULT
  /\ torque_calibration_complete = FALSE
  /\ calLog = "none"
  /\ accepted = <<>>
  /\ last_reading = -1
  /\ delay_calls = 0

\* ebike_setup has just called calibrate_torque_sensor.
SetupInCalibration ==
  /\ setupPc = "in_calibration"
  /\ calibrate_calls = 1

\* ebike_setup is entered.
SetupNotStarted ==
  /\ setupPc = "pins"
  /\ calibrate_calls = 0

\* Lines 79-98: profiles, pin modes, PAS interrupts.
SetupPins ==
  /\ setupPc = "pins"
  /\ setupPc' = "indicator"
  /\ UNCHANGED <<calibrate_calls, torqueVars, calVars, storeVars>>

\* Line 101: startup_battery_indicator() runs to its end (its LED sequence
\* is not part of this state).
SetupBatteryIndicator ==
  /\ setupPc = "indicator"
  /\ setupPc' = "calibrate"
  /\ UNCHANGED <<calibrate_calls, torqueVars, calVars, storeVars>>

\* Variant: calibration is called right after the pin set-up, before the
\* battery indicator.
SetupCalibrate_BeforeIndicator ==
  /\ setupPc = "pins"
  /\ calPc = "uncalled"
  /\ setupPc' = "in_calibration"
  /\ calPc' = "idle"
  /\ calibrate_calls' = calibrate_calls + 1
  /\ UNCHANGED <<debug_mode, TORQUE_CALIBRATION_SAMPLES, cal_i, total_readings,
                 valid_samples, elapsed, torque_standstill_calibrated,
                 torque_calibration_complete, calLog, accepted, last_reading,
                 delay_calls, torqueVars, storeVars>>

\* Line 105: calibrate_torque_sensor() is called.
SetupCalibrate ==
  /\ setupPc = "calibrate"
  /\ calPc = "uncalled"
  /\ setupPc' = "in_calibration"
  /\ calPc' = "idle"
  /\ calibrate_calls' = calibrate_calls + 1
  /\ UNCHANGED <<debug_mode, TORQUE_CALIBRATION_SAMPLES, cal_i, total_readings,
                 valid_samples, elapsed, torque_standstill_calibrated,
                 torque_calibration_complete, calLog, accepted, last_reading,
                 delay_calls, torqueVars, storeVars>>

\* Lines 107-115: calibrate_torque_sensor has returned; "System ready!".
SetupReady ==
  /\ setupPc = "in_calibration"
  /\ calPc = "done"
  /\ setupPc' = "ready"
  /\ UNCHANGED <<calibrate_calls, torqueVars, calVars, storeVars>>

\* ----------------------------- startup_battery_indicator, step by step
\* Lines 13-22, entered from line 99 of ebike_setup: the LED is on for 1 s
\* and off for 200 ms, then the polling starts.
IndicatorEnter ==
  /\ setupPc = "indicator"
  /\ indPc = "idle"
  /\ led' = "LOW"
  /\ ledLog' = Append(ledLog, 1000)
  /\ millis' = millis + 1200
  /\ vesc_timeout' = millis + 1200
  /\ battery_data_available' = FALSE
  /\ indPc' = "poll"
  /\ UNCHANGED <<battery_voltage, battery_percentage, blink_i, setupPc,
                 BATTERY_FULL_VOLTAGE, BATTERY_CRITICAL_VOLTAGE, wifiTaskPc,
                 wifiConnected, serverBegun, routes, lastAPCheck,
                 handleClientCalls, dataUpdateSemaphore, sharedVescData,
                 sharedSensorData, ctrlVars, vescVars, bleVars,
                 bleDeviceConnected, wifiVars, linkVars, bridgeVars, calVars,
                 torqueVars, calibrate_calls>>

\* Lines 25-43, one evaluation of the loop condition with its iteration:
\* vescUart.getVescValues() answers with an input voltage (a 16-bit count of
\* tenths of a volt) or fails, after which delay(100) runs; the failing read
\* returns at once or after the 100 ms the UART is waited for. The percentage
\* is kept as an exact fraction.
IndicatorPoll ==
  /\ indPc = "poll"
  /\ IF millis - vesc_timeout < 10000
       THEN \/ \E inpVoltage \in {-1, 0, 329, 330, 375, 389, 390, 419, 420,
                                  421, 465, 539, 540, 600} :
                 /\ battery_voltage' = inpVoltage
                 /\ battery_percentage' =
                      IF inpVoltage > BATTERY_FULL_VOLTAGE
                        THEN Float(100, 1)
                      ELSE IF inpVoltage < BATTERY_CRITICAL_VOLTAGE
                        THEN Float(0, 1)
                      ELSE Float((inpVoltage - BATTERY_CRITICAL_VOLTAGE) * 100,
                                 BATTERY_FULL_VOLTAGE
                                   - BATTERY_CRITICAL_VOLTAGE)
                 /\ battery_data_available' = TRUE
                 /\ indPc' = "show"
                 /\ blink_i' = 0
                 /\ UNCHANGED millis
            \/ \E waited \in {0, 100} :
                 /\ millis' = millis + waited + 100
                 /\ UNCHANGED <<battery_voltage, battery_percentage,
                                battery_data_available, indPc, blink_i>>
       ELSE /\ indPc' = "show"
            /\ blink_i' = 0
            /\ UNCHANGED <<battery_voltage, battery_percentage,
                           battery_data_available, millis>>
  /\ UNCHANGED <<led, ledLog, vesc_timeout, setupPc,
                 BATTERY_FULL_VOLTAGE, BATTERY_CRITICAL_VOLTAGE, wifiTaskPc,
                 wifiConnected, serverBegun, routes, lastAPCheck,
                 handleClientCalls, dataUpdateSemaphore, sharedVescData,
                 sharedSensorData, ctrlVars, vescVars, bleVars,
                 bleDeviceConnected, wifiVars, linkVars, bridgeVars, calVars,
                 torqueVars, calibrate_calls>>

\* Variant: the blink loops run while i <= count.
IndicatorBlink_OneMore ==
  /\ indPc = "show"
  /\ LET blinks == battery_percentage.num \div (battery_percentage.den * 10)
         count == IF battery_data_available THEN blinks ELSE 3
         pulse == IF battery_data_available THEN 200 ELSE 100
     IN IF led = "HIGH"
          THEN /\ led' = "LOW"
               /\ ledLog' = Append(ledLog, pulse)
               /\ millis' = millis + pulse
               /\ blink_i' = blink_i + 1
               /\ UNCHANGED indPc
          ELSE IF blink_i <= count
                 THEN /\ led' = "HIGH"
                      /\ millis' = millis + pulse
                      /\ UNCHANGED <<indPc, ledLog, blink_i>>
                 ELSE /\ indPc' = "final"
                      /\ UNCHANGED <<led, ledLog, millis, blink_i>>
  /\ UNCHANGED <<vesc_timeout, battery_data_available, battery_voltage,
                 battery_percentage, setupPc,
                 BATTERY_FULL_VOLTAGE, BATTERY_CRITICAL_VOLTAGE, wifiTaskPc,
                 wifiConnected, serverBegun, routes, lastAPCheck,
                 handleClientCalls, dataUpdateSemaphore, sharedVescData,
                 sharedSensorData, ctrlVars, vescVars, bleVars,
                 bleDeviceConnected, wifiVars, linkVars, bridgeVars, calVars,
                 torqueVars, calibrate_calls>>

\* Lines 45-68, half a pulse at a time: blinks = (int)(battery_percentage /
\* 10.0) pulses of 200 ms when data was read, 3 pulses of 100 ms otherwise;
\* the loop test with the LED off either starts a pulse or leaves the loop.
IndicatorBlink ==
  /\ indPc = "show"
  /\ LET blinks == battery_percentage.num \div (battery_percentage.den * 10)
         count == IF battery_data_available THEN blinks ELSE 3
         pulse == IF battery_data_available THEN 200 ELSE 100
     IN IF led = "HIGH"
          THEN /\ led' = "LOW"
               /\ ledLog' = Append(ledLog, pulse)
               /\ millis' = millis + pulse
               /\ blink_i' = blink_i + 1
               /\ UNCHANGED indPc
          ELSE IF blink_i < count
                 THEN /\ led' = "HIGH"
                      /\ millis' = millis + pulse
                      /\ UNCHANGED <<indPc, ledLog, blink_i>>
                 ELSE /\ indPc' = "final"
                      /\ UNCHANGED <<led, ledLog, millis, blink_i>>
  /\ UNCHANGED <<vesc_timeout, battery_data_available, battery_voltage,
                 battery_percentage, setupPc,
                 BATTERY_FULL_VOLTAGE, BATTERY_CRITICAL_VOLTAGE, wifiTaskPc,
                 wifiConnected, serverBegun, routes, lastAPCheck,
                 handleClientCalls, dataUpdateSemaphore, sharedVescData,
                 sharedSensorData, ctrlVars, vescVars, bleVars,
                 bleDeviceConnected, wifiVars, linkVars, bridgeVars, calVars,
                 torqueVars, calibrate_calls>>

\* Lines 71-72 and 99-104: the LED is switched off, the function returns and
\* ebike_setup goes on to the calibration.
IndicatorReturn ==
  /\ indPc = "final"
  /\ led' = "LOW"
  /\ indPc' = "idle"
  /\ setupPc' = "calibrate"
  /\ UNCHANGED <<ledLog, millis, vesc_timeout, battery_data_available,
                 battery_voltage, battery_percentage, blink_i,
                 BATTERY_FULL_VOLTAGE, BATTERY_CRITICAL_VOLTAGE, wifiTaskPc,
                 wifiConnected, serverBegun, routes, lastAPCheck,
                 handleClientCalls, dataUpdateSemaphore, sharedVescData,
                 sharedSensorData, ctrlVars, vescVars, bleVars,
                 bleDeviceConnected, wifiVars, linkVars, bridgeVars, calVars,
                 torqueVars, calibrate_calls>>

startup_battery_indicator ==
  IndicatorEnter \/ IndicatorPoll \/ IndicatorBlink \/ IndicatorReturn

\* A further call of calibrate_torque_sensor after set-up: the function is
\* declared in ebike_controller.h and has no guard of its own.
CalibrateAgain ==
  /\ setupPc = "ready"
  /\ calPc = "done"
  /\ calibrate_calls < MaxCalls
  /\ calPc' = "idle"
  /\ calibrate_calls' = calibrate_calls + 1
  /\ UNCHANGED <<debug_mode, TORQUE_CALIBRATION_SAMPLES, cal_i, total_readings,
                 valid_samples, elapsed, torque_standstill_calibrated,
                 torque_calibration_complete, calLog, accepted, last_reading,
                 delay_calls, setupPc, torqueVars, storeVars>>

\* ------------------------------------------- VESC bridge (vesc_bridge.cpp)
BUFFER_SIZE == 512

\* Chunks received on one port, and statistics reports, within one run.
MaxChunks == 2

MaxStats == 1

\* n consecutive byte values, the first one being start modulo 256.
Chunk(start, n) == [j \in 1 .. n |-> (start + j - 1) % 256]

\* The serial drivers put received bytes into the receive buffer of the
\* port: one byte, or more than one forward call moves; ChunksIn is the
\* number of such chunks in a history.
BridgeReceive ==
  /\ \E n \in {1, BUFFER_SIZE + 1} :
       LET ChunksIn(rcvd) == (Len(rcvd) % (BUFFER_SIZE + 1))
                               + (Len(rcvd) \div (BUFFER_SIZE + 1))
       IN
       \/ /\ ChunksIn(usbRcvd) < MaxChunks
          /\ usbRx' = usbRx \o Chunk(Len(usbRcvd), n)
          /\ usbRcvd' = usbRcvd \o Chunk(Len(usbRcvd), n)
          /\ UNCHANGED <<vescRx, vescRcvd>>
       \/ /\ ChunksIn(vescRcvd) < MaxChunks
          /\ vescRx' = vescRx \o Chunk(Len(vescRcvd) + 100, n)
          /\ vescRcvd' = vescRcvd \o Chunk(Len(vescRcvd) + 100, n)
          /\ UNCHANGED <<usbRx, usbRcvd>>
  /\ UNCHANGED <<usbTx, vescTx, bytes_forwarded_usb_to_vesc,
                 bytes_forwarded_vesc_to_usb, usb_bytes, vesc_bytes, led_state,
                 stats_printed, dataUpdateSemaphore, sharedVescData,
                 sharedSensorData, ctrlVars, vescVars, bleVars,
                 bleDeviceConnected, wifiVars, linkVars, calVars, sessionVars,
                 startVars>>

\* Lines 130-135, 151-156: the number of bytes one forward call reads and
\* writes, given what waits in the receive buffer.
ForwardCount(rx) == IF Len(rx) < BUFFER_SIZE THEN Len(rx) ELSE BUFFER_SIZE

\* runVescBridge (lines 198-212): forwardUSBToVESC, forwardVESCToUSB,
\* updateBridgeStatusLED and printBridgeStats. Whether the blink interval and
\* the statistics interval have elapsed is decided by millis(). The report
\* printBridgeStats writes to Serial begins with an empty line (CR LF); the
\* lines that follow are left out. The uint32_t counters of a run stay far
\* below 2^32.
runVescBridge ==
  /\ \E blink \in BOOLEAN, due \in BOOLEAN :
       LET u == ForwardCount(usbRx)
           v == ForwardCount(vescRx)
       IN /\ due => stats_printed < MaxStats
          /\ vescTx' = vescTx \o SubSeq(usbRx, 1, u)
          /\ usbRx' = SubSeq(usbRx, u + 1, Len(usbRx))
          /\ bytes_forwarded_usb_to_vesc' = bytes_forwarded_usb_to_vesc + u
          /\ usb_bytes' = u
          /\ usbTx' = usbTx \o SubSeq(vescRx, 1, v)
                            \o (IF due THEN <<13, 10>> ELSE <<>>)
          /\ vescRx' = SubSeq(vescRx, v + 1, Len(vescRx))
          /\ bytes_forwarded_vesc_to_usb' = bytes_forwarded_vesc_to_usb + v
          /\ vesc_bytes' = v
          /\ led_state' = (IF blink THEN ~led_state ELSE led_state)
          /\ stats_printed' = stats_printed + (IF due THEN 1 ELSE 0)
  /\ UNCHANGED <<usbRcvd, vescRcvd, dataUpdateSemaphore, sharedVescData,
                 sharedSensorData, ctrlVars, vescVars, bleVars,
                 bleDeviceConnected, wifiVars, linkVars, calVars, sessionVars,
                 startVars>>

\* ------------------------------------------------------- specifications
\* The evaluator at rest in the standard configuration, ebike_setup inside
\* its call of calibrate_torque_sensor.
InitEvalIdle ==
  /\ TorqueConfig({<<0, 4095>>}, {FALSE})
  /\ TorqueNotRun
  /\ SetupInCalibration

Init == InitStore /\ InitCal /\ InitEvalIdle

\* The tasks run after ebike_setup: calibration is not in progress.
InitTasks == InitStore /\ InitCalIdle /\ InitEvalIdle

\* Calibration in any configuration with at least one sample.
InitAnyN == InitStore /\ InitCalAnyN /\ InitEvalIdle

\* Power-on: every shipped configuration, ebike_setup entered.
InitSession ==
  /\ InitStore
  /\ CalConfig(2 .. MaxSamples, BOOLEAN) /\ CalNotCalled
  /\ TorqueConfig(LimitConfigs, BOOLEAN) /\ TorqueNotRun
  /\ SetupNotStarted

\* Power-on with extents that leave no room around the baseline.
InitDegenerate ==
  /\ InitStore
  /\ CalConfig({2}, BOOLEAN) /\ CalNotCalled
  /\ TorqueConfig(DegenerateLimits, BOOLEAN) /\ TorqueNotRun
  /\ SetupNotStarted

\* Power-on in the smallest shipped configuration.
InitRecall ==
  /\ InitStore
  /\ CalConfig({2}, BOOLEAN) /\ CalNotCalled
  /\ TorqueConfig({<<0, 4095>>}, {FALSE}) /\ TorqueNotRun
  /\ SetupNotStarted

Producers ==
  \/ CtrlCompute \/ CtrlTake \/ CtrlWrite1 \/ CtrlWrite2 \/ CtrlGive
  \/ VescPoll \/ VescTake \/ VescWrite1 \/ VescWrite2 \/ VescGive

\* updateBLETelemetryData, updateBLEVescData and the delay of one iteration
BlePublish ==
  \/ BleTelemTake \/ BleTelemNullCheck \/ BleTelemSpeed \/ BleTelemTorque
  \/ BleTelemBattery \/ BleTelemStatus \/ BleTelemPower \/ BleTelemGive
  \/ BleVescTake \/ BleVescData \/ BleVescGive \/ BleDelay

BleTask == BleLinkPoll \/ BleLinkRestart \/ BlePublish

WifiHandler ==
  \/ WifiRequest \/ WifiReadSpeed \/ WifiReadBattery \/ WifiReadMode
  \/ WifiReadTorque \/ WifiSend

\* Producers and the BLE publisher
NextStore == Producers \/ OnConnect \/ OnDisconnect \/ BleTask

SpecStore == InitTasks /\ [][NextStore]_vars

\* Producers and the WiFi /status handler
NextWifi == Producers \/ WifiHandler

SpecWifi == InitTasks /\ [][NextWifi]_vars

\* calibrate_torque_sensor, for the shipped configurations and for every
\* sample count; under fair scheduling the function keeps running.
NextCal == CalEnter \/ CalLoopCheck \/ CalSample \/ CalDecide

SpecCal == Init /\ [][NextCal]_vars

FairSpecCal == SpecCal /\ WF_vars(NextCal)

SpecCalAnyN == InitAnyN /\ [][NextCal]_vars

\* ebike_setup with its calibration, then the control loop's update_torque
\* cycles.
Setup == SetupPins \/ SetupBatteryIndicator \/ SetupCalibrate \/ SetupReady

NextSession == Setup \/ NextCal \/ update_torque

SpecSession == InitSession /\ [][NextSession]_vars

SpecDegenerate == InitDegenerate /\ [][NextSession]_vars

\* The session with further calls of calibrate_torque_sensor.
NextRecall == NextSession \/ CalibrateAgain

SpecRecall == InitRecall /\ [][NextRecall]_vars

\* The whole program
Next == Producers \/ OnConnect \/ OnDisconnect \/ BleTask \/ WifiHandler
          \/ NextCal \/ Setup \/ update_torque

Spec == Init /\ [][Next]_vars

\* Fair scheduling: every task is eventually run, and a bounded
\* xSemaphoreTake eventually returns (acquired or timed out). The connection
\* callbacks only decide whether notify() is called and whether advertising
\* is restarted; they are left out here, bleDeviceConnected keeps its initial
\* value and the loop never enters its restart branch.
NextBle == Producers \/ BleLinkPoll \/ BlePublish

FairSpecBle ==
  /\ InitTasks
  /\ [][NextBle]_vars
  /\ WF_vars(BleTask)
  /\ WF_vars(CtrlCompute \/ CtrlTake \/ CtrlWrite1 \/ CtrlWrite2 \/ CtrlGive)
  /\ WF_vars(VescPoll \/ VescTake \/ VescWrite1 \/ VescWrite2 \/ VescGive)

\* bleTelemetryTask from its entry, beside the control loop publishing its
\* sensor group and the connection callbacks.
InitBleTask ==
  /\ InitTelemetry("create", {<<"No Assist", "Eco", "Sport">>},
                   {<<420, 330>>}, "loop")
  /\ InitCalIdle
  /\ InitEvalIdle

SpecBleTask ==
  /\ InitBleTask
  /\ [][\/ CtrlCompute \/ CtrlTake \/ CtrlWrite1 \/ CtrlWrite2 \/ CtrlGive
        \/ OnConnect \/ OnDisconnect
        \/ BleCreate \/ BleInitialValues \/ BleInitModeList \/ BleTask]_vars

\* The BLE control service of a running bleTelemetryTask, beside the control
\* loop publishing its sensor group, for every profile table.
ProfileTables == {<<"No Assist", "Eco", "Sport">>,
                  <<"Eco", "No Assist", "No Assist">>,
                  <<"Eco", "Sport">>}

InitControl ==
  /\ InitTelemetry("link", ProfileTables, {<<420, 330>>}, "loop")
  /\ InitCalIdle
  /\ InitEvalIdle

SpecControl ==
  /\ InitControl
  /\ [][\/ CtrlCompute \/ CtrlTake \/ CtrlWrite1 \/ CtrlWrite2 \/ CtrlGive
        \/ OnConnect \/ OnDisconnect
        \/ BleModeWrite \/ BleCommandWrite]_vars

\* Bridge mode after initVescBridge: the receive buffers are drained and
\* nothing has been forwarded.
InitBridge == InitStore /\ InitCalIdle /\ InitEvalIdle

SpecBridge == InitBridge /\ [][BridgeReceive \/ runVescBridge]_vars

\* Power-on: ebike_setup and wifiTelemetryTask are entered, for two battery
\* configurations (full / critical voltage in tenths of a volt).
InitBoot ==
  /\ InitTelemetry("link", {<<"No Assist", "Eco", "Sport">>},
                   {<<420, 330>>, <<540, 380>>}, "start")
  /\ CalConfig({2}, {FALSE}) /\ CalNotCalled
  /\ TorqueConfig({<<0, 4095>>}, {FALSE}) /\ TorqueNotRun
  /\ SetupNotStarted

\* wifiTelemetryTask from its entry.
SpecWifiTask ==
  InitBoot /\ [][WifiTaskStart \/ WifiServerSetup \/ WifiTaskLoop]_vars

\* ebike_setup up to its call of calibrate_torque_sensor, with the battery
\* indicator followed step by step. ebike_setup is the only code running on
\* its thread, so every step that can be taken is taken.
SpecStartup ==
  /\ InitBoot
  /\ [][SetupPins \/ startup_battery_indicator \/ SetupCalibrate]_vars
  /\ WF_vars(SetupPins \/ startup_battery_indicator \/ SetupCalibrate)

\* Power-on with extents the calibrated baseline can meet or leave: an
\* accepted reading of 100 or 3995 is an extent of the first configuration
\* and lies outside the second, and the default baseline is the backward
\* extent of the third, whose extents are one count apart.
InitExtents ==
  /\ InitStore
  /\ CalConfig({2}, BOOLEAN) /\ CalNotCalled
  /\ TorqueConfig({<<100, 3995>>, <<500, 3500>>, <<2048, 2049>>}, BOOLEAN)
  /\ TorqueNotRun
  /\ SetupNotStarted

SpecExtents == InitExtents /\ [][NextSession]_vars

\* ================================================================ claims
Tasks == {"ctrl", "vesc", "ble", "wifi"}

\* A task is inside a telemetry-store critical section: between a successful
\* take and the matching give.
InCriticalSection(t) ==
  CASE t = "ctrl" -> ctrlPc \in {"w1", "w2", "give"}
    [] t = "vesc" -> vescPc \in {"w1", "w2", "give"}
    [] t = "ble"  -> blePc \in {"T_check", "T_speed", "T_torque", "T_battery",
                                "T_status", "T_power", "T_give", "V_data",
                                "V_give"}
    [] OTHER      -> FALSE

\* A consumer is about to read, or between two reads of, the shared structs.
BleReading == blePc \in {"T_speed", "T_torque", "T_battery", "T_status",
                         "T_power", "V_data"}

WifiReading == wifiPc \in {"W_speed", "W_battery", "W_mode", "W_torque"}

\* C1 (as claimed): no tearing. The values one consumer read surfaces come
\* from a store state with no producer transaction partially applied: the
\* fields of one producer group carry the tag of one and the same transaction,
\* for the WiFi /status response and for the BLE telemetry characteristics.
C1_NoTearing ==
  /\ wifiPc = "W_send" =>
       /\ response.speed = response.battery
       /\ response.mode = response.torque
  /\ blePc = "T_give" =>
       /\ bleChar.speed = bleChar.battery
       /\ bleChar.torque = bleChar.status

\* C2 (as claimed): exclusive access. At most one task is inside a critical
\* section, and a consumer reads the shared structs only while it holds
\* dataUpdateSemaphore.
C2_ExclusiveAccess ==
  /\ Cardinality({t \in Tasks : InCriticalSection(t)}) <= 1
  /\ BleReading => dataUpdateSemaphore = "ble"
  /\ WifiReading => dataUpdateSemaphore = "wifi"

\* C3: lock-timeout path. A step in which the bounded take of a BLE store
\* operation times out sets no characteristic value, sends no notification,
\* leaves the shared telemetry and the mutex as they are, and goes on to what
\* follows the operation (no retry); and a task whose take failed is never
\* inside the operation's body, so it has nothing to release.
BleTakeTimesOut ==
  /\ blePc \in {"T_take", "V_take"}
  /\ blePc' # blePc
  /\ dataUpdateSemaphore # "free"

C3_LockTimeoutAbandons ==
  /\ [][BleTakeTimesOut =>
          /\ UNCHANGED <<bleChar, sharedVescData, sharedSensorData,
                         dataUpdateSemaphore>>
          /\ ~bleNotified'
          /\ ~bleTaken'
          /\ blePc' = (IF blePc = "T_take" THEN "V_take" ELSE "delay")]_vars
  /\ [](~bleTaken => (~InCriticalSection("ble") /\ dataUpdateSemaphore # "ble"))

\* C3 witness: updateBLETelemetryData has just returned from a timed-out take
\* while another task still holds the mutex.
C3_TimedOut ==
  /\ blePc = "V_take"
  /\ ~bleTaken
  /\ dataUpdateSemaphore \in {"ctrl", "vesc"}

\* The BLE task is inside updateBLETelemetryData / updateBLEVescData.
InTelemOp == blePc \in {"T_take", "T_check", "T_speed", "T_torque",
                        "T_battery", "T_status", "T_power", "T_give"}

InVescOp == blePc \in {"V_take", "V_data", "V_give"}

\* C4: no indefinite suspension. Under fair scheduling the BLE task is again
\* and again outside updateBLETelemetryData and outside updateBLEVescData
\* (every invocation returns), the mutex is again and again free (every
\* holder releases it), and a producer is never stuck in its attempt to take
\* the mutex.
C4_NoIndefiniteSuspension ==
  /\ []<>(~InTelemOp)
  /\ []<>(~InVescOp)
  /\ []<>(dataUpdateSemaphore = "free")
  /\ []<>(ctrlPc # "take")
  /\ []<>(vescPc # "take")

\* C4 witness: updateBLEVescData returned although the mutex was held by a
\* producer for its whole bounded wait.
C4_ReturnedUnderContention ==
  /\ blePc = "delay"
  /\ ~bleTaken
  /\ dataUpdateSemaphore \in {"ctrl", "vesc"}

\* C5 (as claimed): sole channel. What the BLE publisher emits in the power
\* data and the VESC data characteristics is what the shared snapshot holds
\* while the publisher has it locked.
C5_SoleChannel ==
  /\ blePc = "T_give" => bleChar.power = sharedSensorData.human_power
  /\ blePc = "V_give" => bleChar.vesc_rpm = sharedVescData.rpm

\* ---------------------------------------------------- calibration claims
RECURSIVE SumOf(_)
SumOf(seq) == IF seq = <<>> THEN 0 ELSE Head(seq) + SumOf(Tail(seq))

\* calibrate_torque_sensor has returned from its sampling path.
CalReturned == calPc = "done" /\ ~debug_mode

\* The loop was left through the timeout break.
CalTimedOut == elapsed > TORQUE_CALIBRATION_TIMEOUT_MS

\* A baseline update_torque can work with: inside the plausible range.
UsableBaseline(b) == b \in MIN_VALID_READING .. MAX_VALID_READING

C7_BaselineIsRoundedMean ==
  (CalReturned /\ Len(accepted) >= TORQUE_CALIBRATION_SAMPLES \div 2) =>
    /\ is_torque_calibration_complete
    /\ calLog = "completed"
    /\ torque_standstill_calibrated = RoundedMean(SumOf(accepted), Len(accepted))

\* C7 (amended): with at least N/2 accepted samples calibration ends
\* Complete with the baseline equal to the mean of the accepted samples
\* truncated towards zero (the integer quotient of sum and count).
C7_BaselineIsTruncatedMean ==
  (CalReturned /\ Len(accepted) >= TORQUE_CALIBRATION_SAMPLES \div 2) =>
    /\ is_torque_calibration_complete
    /\ calLog = "completed"
    /\ torque_standstill_calibrated = SumOf(accepted) \div Len(accepted)

\* C7 witness: a successful calibration whose mean has a fractional part of
\* one half or more, where rounding and truncation differ.
C7_MeanWithFraction ==
  /\ CalReturned
  /\ calLog = "completed"
  /\ 2 * (SumOf(accepted) % Len(accepted)) >= Len(accepted)

C9_ZeroValidFallsBack ==
  /\ (calPc \in {"done", "crashed"} /\ ~debug_mode /\ accepted = <<>>) =>
        /\ calPc = "done"
        /\ calLog = "failed"
        /\ torque_standstill_calibrated = TORQUE_STANDSTILL_DEFAULT
  /\ ~(calPc = "decide" /\ EnoughSamples /\ valid_samples = 0)

C11_OutlierRejection ==
  /\ [][calPc = "sample" =>
          /\ IF 100 <= last_reading' /\ last_reading' <= 3995
               THEN /\ total_readings' = total_readings + last_reading'
                    /\ valid_samples' = valid_samples + 1
                    /\ accepted' = Append(accepted, last_reading')
               ELSE UNCHANGED <<total_readings, valid_samples, accepted>>
          /\ cal_i' = cal_i + 1
          /\ calPc' = "loop"]_vars
  /\ [](valid_samples = Len(accepted) /\ total_readings = SumOf(accepted))

\* C11 witness: both bounds were accepted and the reading just below the
\* lower bound has just been rejected, three iterations used.
C11_BoundsAcceptedNeighbourRejected ==
  /\ calPc = "loop"
  /\ accepted = <<100, 3995>>
  /\ last_reading = 99
  /\ cal_i = 3
  /\ valid_samples = 2

\* C12: debug bypass. With debug_mode set, calibrate_torque_sensor returns
\* in its first step, having read no sample and called no delay, with the
\* default baseline and torque_calibration_complete = true.
C12_DebugBypass ==
  /\ [][(debug_mode /\ calPc = "idle") => calPc' = "done"]_vars
  /\ []((debug_mode /\ calPc = "done") =>
          /\ torque_standstill_calibrated = TORQUE_STANDSTILL_DEFAULT
          /\ is_torque_calibration_complete
          /\ last_reading = -1
          /\ delay_calls = 0
          /\ cal_i = 0
          /\ accepted = <<>>)

\* C12 witness: the function has returned through the bypass.
C12_Skipped ==
  /\ debug_mode
  /\ calPc = "done"
  /\ calLog = "skipped"

\* C13 (as claimed): calibration state is monotonic. Once
\* torque_calibration_complete is true, no step of any operation (update_torque
\* cycles, a further call of calibrate_torque_sensor) makes it false again or
\* changes torque_standstill_calibrated.
C13_CalibrationMonotonic ==
  [][torque_calibration_complete =>
       /\ torque_calibration_complete'
       /\ torque_standstill_calibrated' = torque_standstill_calibrated]_vars

\* C14: calibration runs exactly once, at startup. ebike_setup calls
\* calibrate_torque_sensor once, from the position the battery indicator
\* hands over to; it reports ready only after the call has returned; no
\* update_torque cycle changes the evaluator's outputs before that; and once
\* the system is ready nothing starts calibration again.
C14_CalibratesOnceAtStartup ==
  /\ [](calibrate_calls <= 1)
  /\ [](setupPc = "ready" => (calibrate_calls = 1 /\ calPc = "done"))
  /\ [](calPc # "uncalled" => setupPc \in {"in_calibration", "ready"})
  /\ [][calibrate_calls' # calibrate_calls =>
          (setupPc = "calibrate" /\ setupPc' = "in_calibration")]_vars
  /\ [][(setupPc' = "calibrate" /\ setupPc # "calibrate") =>
          setupPc = "indicator"]_vars
  /\ [][<<raw_torque_value, crank_torque_nm, filtered_torque>>'
            # <<raw_torque_value, crank_torque_nm, filtered_torque>> =>
          (calPc = "done" /\ setupPc = "ready")]_vars
  /\ [][setupPc = "ready" => UNCHANGED <<calPc, calibrate_calls>>]_vars

\* C14 witness: the system is ready after its one calibration and a control
\* cycle has produced a torque.
C14_ReadyAndCycling ==
  /\ setupPc = "ready"
  /\ calibrate_calls = 1
  /\ calLog = "completed"
  /\ FloatGreater(crank_torque_nm, FloatZero)

\* ------------------------------------------------------ evaluator claims
\* if (debug_mode && debug_simulate_torque)   (line 82)
SimulationMode == debug_mode /\ debug_simulate_torque

\* update_torque has run, on the sensor path.
EvaluatedNormal == torque_evaluated /\ ~SimulationMode

\* C15: dead-zone. After update_torque on the sensor path, a raw sample with
\* baseline - TORQUE_THRESHOLD < raw < baseline + TORQUE_THRESHOLD has torque
\* exactly 0, and one with |raw - baseline| = TORQUE_THRESHOLD has a torque
\* above 0.
C15_DeadZone ==
  EvaluatedNormal =>
    /\ (/\ torque_standstill_calibrated - TORQUE_THRESHOLD < raw_torque_value
        /\ raw_torque_value < torque_standstill_calibrated + TORQUE_THRESHOLD)
          => (crank_torque_nm = FloatZero /\ filtered_torque = FloatZero)
    /\ (\/ raw_torque_value = torque_standstill_calibrated + TORQUE_THRESHOLD
        \/ raw_torque_value = torque_standstill_calibrated - TORQUE_THRESHOLD)
          => FloatGreater(crank_torque_nm, FloatZero)

\* C15 witness: the largest deviation still inside the dead-zone, evaluated
\* to zero.
C15_JustInsideDeadZone ==
  /\ EvaluatedNormal
  /\ raw_torque_value = torque_standstill_calibrated - (TORQUE_THRESHOLD - 1)
  /\ crank_torque_nm = FloatZero

\* C16 (as claimed): saturation at the extents. After update_torque on the
\* sensor path with the raw sample at either physical extent, the torque is
\* exactly TORQUE_MAX_NM.
C16_SaturatesAtBothExtents ==
  (EvaluatedNormal
     /\ raw_torque_value \in {TORQUE_MAX_BACKWARD, TORQUE_MAX_FORWARD})
    => FloatEqual(crank_torque_nm, FloatMaxNm)

\* C16 (amended): a raw sample at the extent farther from the baseline
\* evaluates to exactly TORQUE_MAX_NM; at the nearer extent the torque stays
\* below TORQUE_MAX_NM unless both extents are equally far.
C16_SaturatesAtFartherExtent ==
  (EvaluatedNormal
     /\ raw_torque_value \in {TORQUE_MAX_BACKWARD, TORQUE_MAX_FORWARD})
    => LET here  == Abs(raw_torque_value - torque_standstill_calibrated)
           back  == Abs(TORQUE_MAX_BACKWARD - torque_standstill_calibrated)
           forth == Abs(TORQUE_MAX_FORWARD - torque_standstill_calibrated)
       IN IF here >= back /\ here >= forth
            THEN FloatEqual(crank_torque_nm, FloatMaxNm)
            ELSE FloatLess(crank_torque_nm, FloatMaxNm)

\* C16 witness: the raw sample sits at the forward extent, the nearer one,
\* and the torque is positive but below TORQUE_MAX_NM.
C16_NearerExtentBelowMax ==
  /\ EvaluatedNormal
  /\ raw_torque_value = TORQUE_MAX_FORWARD
  /\ TORQUE_MAX_FORWARD - torque_standstill_calibrated
       < torque_standstill_calibrated - TORQUE_MAX_BACKWARD
  /\ FloatGreater(crank_torque_nm, FloatZero)
  /\ FloatLess(crank_torque_nm, FloatMaxNm)

\* C17: symmetry. After update_torque on the sensor path, the torque is the
\* one the evaluation yields for the raw sample mirrored at the baseline.
C17_Symmetry ==
  EvaluatedNormal =>
    FloatEqual(crank_torque_nm,
               ClampTorque(UnclampedTorque(2 * torque_standstill_calibrated
                                             - raw_torque_value)))

\* C17 witness: a raw sample below the baseline, outside the dead-zone and
\* short of saturation.
C17_BackwardDeviation ==
  /\ EvaluatedNormal
  /\ raw_torque_value < torque_standstill_calibrated
  /\ FloatGreater(crank_torque_nm, FloatZero)
  /\ FloatLess(crank_torque_nm, FloatMaxNm)

\* C18 (as claimed): torque is bounded in every mode. After every
\* update_torque, on the sensor path and on the simulation path,
\* crank_torque_nm and filtered_torque lie in [0, TORQUE_MAX_NM].
C18_TorqueBounded ==
  torque_evaluated =>
    /\ ~FloatLess(crank_torque_nm, FloatZero)
    /\ ~FloatGreater(crank_torque_nm, FloatMaxNm)
    /\ ~FloatLess(filtered_torque, FloatZero)
    /\ ~FloatGreater(filtered_torque, FloatMaxNm)
    /\ ~IsNaN(crank_torque_nm)
    /\ ~IsNaN(filtered_torque)

\* C19 (as claimed): division-by-zero guard. After update_torque with
\* max_extent equal to zero the torque is 0, on the sensor path and on the
\* simulation path (no quotient by max_extent has been formed).
C19_ZeroExtentYieldsZero ==
  (torque_evaluated
     /\ Max(torque_standstill_calibrated - TORQUE_MAX_BACKWARD,
            TORQUE_MAX_FORWARD - torque_standstill_calibrated) = 0)
    => (crank_torque_nm = FloatZero /\ filtered_torque = FloatZero)

\* C20: scaling formula. After update_torque on the sensor path with
\* |raw - baseline| >= TORQUE_THRESHOLD, the torque is
\* min(|raw - baseline| / max_extent * TORQUE_MAX_NM, TORQUE_MAX_NM) with
\* max_extent = max(baseline - TORQUE_MAX_BACKWARD, TORQUE_MAX_FORWARD -
\* baseline), the deviation taken from the raw sample as read.
C20_ScalingFormula ==
  LET deviation  == Abs(raw_torque_value - torque_standstill_calibrated)
      max_extent == Max(torque_standstill_calibrated - TORQUE_MAX_BACKWARD,
                        TORQUE_MAX_FORWARD - torque_standstill_calibrated)
  IN (EvaluatedNormal /\ deviation >= TORQUE_THRESHOLD) =>
       /\ max_extent > 0
       /\ crank_torque_nm.den > 0
       /\ IF deviation >= max_extent
            THEN FloatEqual(crank_torque_nm, FloatMaxNm)
            ELSE crank_torque_nm.num * max_extent
                   = deviation * TORQUE_MAX_NM * crank_torque_nm.den
       /\ FloatEqual(filtered_torque, crank_torque_nm)

\* C20 witness: a raw sample beyond the forward extent whose deviation
\* exceeds max_extent; the ratio above 1 is clamped to TORQUE_MAX_NM.
C20_RatioAboveOneClamped ==
  /\ EvaluatedNormal
  /\ raw_torque_value > TORQUE_MAX_FORWARD
  /\ raw_torque_value - torque_standstill_calibrated
       > Max(torque_standstill_calibrated - TORQUE_MAX_BACKWARD,
             TORQUE_MAX_FORWARD - torque_standstill_calibrated)
  /\ crank_torque_nm = FloatMaxNm

\* update_torque has run, on the simulation path.
EvaluatedSimulated == torque_evaluated /\ SimulationMode

\* C21: simulation mode. After update_torque with debug_mode and
\* debug_simulate_torque set, crank_torque_nm and filtered_torque are the
\* target debug_torque_nm itself, whatever deviation it corresponds to, and
\* the raw value is baseline + trunc(target / TORQUE_MAX_NM * max_extent)
\* for a target above 0 and the baseline otherwise (no sensor reading enters).
C21_SimulationMode ==
  EvaluatedSimulated =>
    LET max_extent == Max(torque_standstill_calibrated - TORQUE_MAX_BACKWARD,
                          TORQUE_MAX_FORWARD - torque_standstill_calibrated)
    IN /\ crank_torque_nm = debug_torque_nm
       /\ filtered_torque = debug_torque_nm
       /\ raw_torque_value =
            IF debug_torque_nm.num > 0
              THEN torque_standstill_calibrated
                     + ((debug_torque_nm.num * max_extent)
                          \div (debug_torque_nm.den * TORQUE_MAX_NM))
              ELSE torque_standstill_calibrated

\* C21 witness: a positive target whose synthetic deviation is below
\* TORQUE_THRESHOLD is reported as it is.
C21_TargetInsideDeadZone ==
  /\ EvaluatedSimulated
  /\ FloatGreater(crank_torque_nm, FloatZero)
  /\ raw_torque_value > torque_standstill_calibrated
  /\ raw_torque_value - torque_standstill_calibrated < TORQUE_THRESHOLD

\* The torque the sensor path yields for the synthetic raw value the
\* simulation has stored.
RoundTrip == ClampTorque(UnclampedTorque(raw_torque_value))

\* C22 (as claimed): round trip. For a target t with 0 < t < TORQUE_MAX_NM,
\* evaluating the synthetic raw sample again returns t within the tolerance
\* (a thousandth of a Nm).
C22_RoundTripReturnsTarget ==
  LET t == debug_torque_nm
      tolerance == Float(1, 1000)
      Minus(x, y) == Float(x.num * y.den - y.num * x.den, x.den * y.den)
  IN (EvaluatedSimulated /\ FloatGreater(t, FloatZero)
        /\ FloatLess(t, FloatMaxNm)) =>
       /\ ~FloatGreater(Minus(RoundTrip, t), tolerance)
       /\ ~FloatGreater(Minus(t, RoundTrip), tolerance)

\* C22 (amended): for a target t with 0 < t < TORQUE_MAX_NM, evaluating the
\* synthetic raw sample again returns 0 when the synthetic deviation is below
\* TORQUE_THRESHOLD, and otherwise a torque that is at most t and falls short
\* of t by less than TORQUE_MAX_NM / max_extent, the weight of one ADC count.
C22_RoundTripQuantised ==
  LET t == debug_torque_nm
      Minus(x, y) == Float(x.num * y.den - y.num * x.den, x.den * y.den)
      max_extent == Max(torque_standstill_calibrated - TORQUE_MAX_BACKWARD,
                        TORQUE_MAX_FORWARD - torque_standstill_calibrated)
  IN (EvaluatedSimulated /\ FloatGreater(t, FloatZero)
        /\ FloatLess(t, FloatMaxNm)) =>
       IF raw_torque_value - torque_standstill_calibrated < TORQUE_THRESHOLD
         THEN RoundTrip = FloatZero
         ELSE /\ ~FloatGreater(RoundTrip, t)
              /\ FloatLess(Minus(t, RoundTrip),
                           Float(TORQUE_MAX_NM, max_extent))

\* C22 witness: a target whose round trip comes back smaller, by more than
\* a thousandth of a Nm, but not as zero.
C22_RoundTripFallsShort ==
  /\ EvaluatedSimulated
  /\ FloatGreater(debug_torque_nm, FloatZero)
  /\ FloatLess(debug_torque_nm, FloatMaxNm)
  /\ FloatGreater(RoundTrip, FloatZero)
  /\ FloatLess(Float(RoundTrip.num * 1000 + RoundTrip.den, RoundTrip.den * 1000),
               debug_torque_nm)

\* C23 (as claimed): the raw value stays in the physical range. After every
\* update_torque, raw_torque_value lies in
\* [TORQUE_MAX_BACKWARD, TORQUE_MAX_FORWARD].
C23_RawInPhysicalRange ==
  torque_evaluated =>
    /\ TORQUE_MAX_BACKWARD <= raw_torque_value
    /\ raw_torque_value <= TORQUE_MAX_FORWARD

\* C24: no extra filtering. After every update_torque, on every path,
\* filtered_torque is the crank_torque_nm of that call.
C24_NoExtraFiltering ==
  torque_evaluated => filtered_torque = crank_torque_nm

\* C24 witness: a forward deviation on the scaled path, filtered_torque
\* strictly between 0 and TORQUE_MAX_NM.
C24_ScaledForward ==
  /\ EvaluatedNormal
  /\ raw_torque_value > torque_standstill_calibrated
  /\ FloatGreater(filtered_torque, FloatZero)
  /\ FloatLess(filtered_torque, FloatMaxNm)

\* ------------------------------------------------------------ BLE claims
\* C25: lock balance. When updateBLETelemetryData or updateBLEVescData
\* returns, on every path and the early return for a NULL characteristic
\* included, the BLE task has released dataUpdateSemaphore exactly once if its
\* take succeeded and not at all if it failed; it releases only while it holds
\* the mutex, and a step that frees the mutex is a step of its holder.
C25_LockBalance ==
  [][/\ (blePc' # blePc /\ blePc' \in {"V_take", "delay"}) =>
          bleGives' = (IF bleTaken' THEN 1 ELSE 0)
     /\ (bleGives' > bleGives) => (bleTaken /\ dataUpdateSemaphore = "ble")
     /\ (dataUpdateSemaphore # "free" /\ dataUpdateSemaphore' = "free") =>
          CASE dataUpdateSemaphore = "ble"  -> blePc' # blePc
            [] dataUpdateSemaphore = "ctrl" -> ctrlPc' # ctrlPc
            [] OTHER -> FALSE]_vars

\* C25 witness: updateBLETelemetryData has returned early for a NULL
\* characteristic, after a successful take and one release.
C25_EarlyReturnReleased ==
  /\ blePc = "V_take"
  /\ TelemetryChars \cap pCharNull # {}
  /\ bleTaken
  /\ bleGives = 1
  /\ dataUpdateSemaphore # "ble"

\* C26: mode-control validation. A write to the mode-control characteristic
\* calls changeAssistMode, with the first byte and once, exactly when the
\* payload is not empty and that byte is below NUM_ACTIVE_PROFILES; any other
\* payload leaves the active mode as it is. Every mode requested through BLE
\* is the index of an active profile.
C26_ModeControlValidation ==
  /\ [][(bleWrite' # bleWrite /\ bleWrite'.char = "mode") =>
          LET value == bleWrite'.value
          IN IF value # <<>> /\ value[1] \in 0 .. (Len(AVAILABLE_PROFILES) - 1)
               THEN modeRequests' = <<value[1]>>
               ELSE modeRequests' = <<>> /\ current_mode' = current_mode]_vars
  /\ [](\A k \in 1 .. Len(modeRequests) :
          modeRequests[k] \in 0 .. (Len(AVAILABLE_PROFILES) - 1))

\* C26 witness: the highest index of a table of three was written and
\* requested; the byte would be out of range for a table of two.
C26_HighestIndexAccepted ==
  /\ bleWrite.char = "mode"
  /\ bleWrite.value = <<2>>
  /\ Len(AVAILABLE_PROFILES) = 3
  /\ modeRequests = <<2>>

\* C27: emergency stop. The command EMERGENCY_STOP calls changeAssistMode
\* once, with the lowest index of an active profile named "No Assist", and
\* changes nothing when no active profile has that name. A command other than
\* GET_STATUS, GET_MODES and EMERGENCY_STOP changes neither the mode nor any
\* characteristic.
C27_EmergencyStop ==
  [][(bleWrite' # bleWrite /\ bleWrite'.char = "command") =>
       LET command == CommandString(bleWrite'.value)
           noAssist == {i \in 0 .. (Len(AVAILABLE_PROFILES) - 1) :
                          AVAILABLE_PROFILES[i + 1] = "No Assist"}
       IN CASE command = <<"EMERGENCY_STOP">> /\ noAssist # {} ->
                 \E i \in noAssist :
                   /\ \A j \in noAssist : i <= j
                   /\ modeRequests' = <<i>>
            [] command \in {<<"GET_STATUS">>, <<"GET_MODES">>} -> TRUE
            [] OTHER ->
                 /\ modeRequests' = <<>>
                 /\ UNCHANGED <<current_mode, bleChar>>]_vars

\* C27 witness: with two profiles named "No Assist", at indices 1 and 2, the
\* emergency stop has requested index 1 and nothing else.
C27_FirstOfTwoNoAssist ==
  /\ bleWrite.char = "command"
  /\ CommandString(bleWrite.value) = <<"EMERGENCY_STOP">>
  /\ AVAILABLE_PROFILES = <<"Eco", "No Assist", "No Assist">>
  /\ modeRequests = <<1>>

\* C28: advertising restart after disconnect. Every step that takes the
\* connection away leaves the server advertising, whatever the task loop is
\* doing, so a running server without a connection is always advertising; and
\* at the end of a loop iteration during which no connection callback ran,
\* bleOldDeviceConnected equals bleDeviceConnected.
C28_AdvertisingRestart ==
  /\ [][(bleDeviceConnected /\ ~bleDeviceConnected') => advertising']_vars
  /\ []((blePc \notin {"create", "initial", "modelist", "crashed"}
            /\ ~bleDeviceConnected) => advertising)
  /\ []((blePc = "delay" /\ linkStable) =>
          bleOldDeviceConnected = bleDeviceConnected)

\* C28 witness: a connection was made and lost after the poll of this
\* iteration; the loop never saw it, and the server is advertising.
C28_LostBetweenPolls ==
  /\ blePc = "delay"
  /\ ~linkStable
  /\ ~bleDeviceConnected
  /\ ~bleOldDeviceConnected
  /\ advertising

\* C29 (as claimed): no NULL characteristic is used. The initial-value setup,
\* sendBLEModeList, updateBLETelemetryData and updateBLEVescData dereference
\* no characteristic pointer that is NULL.
C29_NoNullDereference ==
  nullDeref \cap {"initial", "modelist", "telemetry", "vesc"} = {}

\* ---------------------------------------------------------- bridge claim
\* C30 (as claimed): bridge transparency. What was written to the VESC UART
\* is a prefix of what was received on USB serial, and what was written to
\* USB serial is a prefix of what was received from the VESC UART; each
\* forward call of runVescBridge moves at most BUFFER_SIZE bytes, returns the
\* number it moved and adds that number to its counter.
C30_BridgeTransparency ==
  /\ [](/\ Len(vescTx) <= Len(usbRcvd)
        /\ vescTx = SubSeq(usbRcvd, 1, Len(vescTx))
        /\ Len(usbTx) <= Len(vescRcvd)
        /\ usbTx = SubSeq(vescRcvd, 1, Len(usbTx)))
  /\ [][(usbRcvd' = usbRcvd /\ vescRcvd' = vescRcvd) =>
          /\ usb_bytes' = Len(usbRx) - Len(usbRx')
          /\ usb_bytes' <= BUFFER_SIZE
          /\ bytes_forwarded_usb_to_vesc' =
               bytes_forwarded_usb_to_vesc + usb_bytes'
          /\ vesc_bytes' = Len(vescRx) - Len(vescRx')
          /\ vesc_bytes' <= BUFFER_SIZE
          /\ bytes_forwarded_vesc_to_usb' =
               bytes_forwarded_vesc_to_usb + vesc_bytes']_vars
\* ------------------------------------------------------- start-up claims
\* C31 (as claimed): web server readiness. Whenever the loop of
\* wifiTelemetryTask runs with wifiConnected true, so that handleClient is
\* called, webServer.begin() has been called and the three handlers are
\* registered.
C31_WebServerReadiness ==
  (wifiTaskPc = "loop" /\ wifiConnected) =>
    (serverBegun /\ routes = {"/", "/status", "notFound"})

\* C32: the start-up battery indicator terminates. getVescValues is called
\* only while less than 10 s have passed since the polling began and no read
\* has succeeded, and the polling ends at the first loop test after 10 s or
\* at the first successful read; when the function has returned the LED is
\* off, battery_percentage is within [0, 100] and the LED has shown the 1 s
\* pulse followed by floor(battery_percentage / 10) pulses of 200 ms (0 to 10)
\* if data was read, by exactly 3 pulses of 100 ms if not; and the call of
\* calibrate_torque_sensor is always reached.
C32_IndicatorTerminates ==
  /\ []((indPc = "idle" /\ setupPc \in {"calibrate", "in_calibration"}) =>
          /\ led = "LOW"
          /\ battery_percentage.num >= 0
          /\ battery_percentage.num <= 100 * battery_percentage.den
          /\ \E k \in 0 .. 10 :
               /\ battery_data_available =>
                    /\ k * 10 * battery_percentage.den <= battery_percentage.num
                    /\ battery_percentage.num
                         < (k + 1) * 10 * battery_percentage.den
                    /\ ledLog = <<1000>> \o [j \in 1 .. k |-> 200]
               /\ ~battery_data_available =>
                    ledLog = <<1000, 100, 100, 100>>)
  /\ [][(indPc = "poll" /\ (millis' # millis \/ battery_data_available')) =>
          (millis - vesc_timeout < 10000 /\ ~battery_data_available)]_vars
  /\ [][(indPc = "poll" /\ (millis - vesc_timeout >= 10000
                            \/ battery_data_available')) =>
          indPc' = "show"]_vars
  /\ <>(setupPc = "in_calibration")

\* The motor controller never answered: the polling ran out after 10 s and
\* the function returned after the three error flashes.
C32_NoAnswerThreeFlashes ==
  /\ setupPc = "in_calibration"
  /\ indPc = "idle"
  /\ ~battery_data_available
  /\ millis - vesc_timeout >= 10000
  /\ ledLog = <<1000, 100, 100, 100>>
  /\ led = "LOW"

\* C33: max_extent is strictly positive. With TORQUE_MAX_FORWARD above
\* TORQUE_MAX_BACKWARD, the divisor max(baseline - TORQUE_MAX_BACKWARD,
\* TORQUE_MAX_FORWARD - baseline) of update_torque is at least half the
\* distance between the extents and above 0 for every baseline, one at an
\* extent or outside the extents included.
C33_MaxExtentPositive ==
  TORQUE_MAX_FORWARD > TORQUE_MAX_BACKWARD =>
    /\ 2 * max_deviation >= TORQUE_MAX_FORWARD - TORQUE_MAX_BACKWARD
    /\ max_deviation > 0

\* update_torque has formed the quotient with the baseline calibrated exactly
\* at the backward extent.
C33_QuotientAtExtent ==
  /\ EvaluatedNormal
  /\ TORQUE_MAX_FORWARD > TORQUE_MAX_BACKWARD
  /\ calLog = "completed"
  /\ torque_standstill_calibrated = TORQUE_MAX_BACKWARD
  /\ ~InDeadZone(AbsoluteDeviation(raw_torque_value))
  /\ FloatGreater(crank_torque_nm, FloatZero)

\* C34 (as claimed): baseline range. After calibrate_torque_sensor has
\* returned, the baseline is TORQUE_STANDSTILL_DEFAULT or lies between the
\* smallest and the largest accepted sample, hence within [100, 3995]; and
\* the running sum is at most 3995 times the number of accepted samples, so
\* it stays inside its integer type.
C34_BaselineRange ==
  /\ CalReturned =>
       \/ torque_standstill_calibrated = TORQUE_STANDSTILL_DEFAULT
       \/ /\ \E j \in 1 .. Len(accepted) :
               accepted[j] <= torque_standstill_calibrated
          /\ \E j \in 1 .. Len(accepted) :
               accepted[j] >= torque_standstill_calibrated
          /\ torque_standstill_calibrated >= MIN_VALID_READING
          /\ torque_standstill_calibrated <= MAX_VALID_READING
  /\ total_readings >= valid_samples * MIN_VALID_READING
  /\ total_readings <= valid_samples * MAX_VALID_READING

====
